---- MODULE Spec2Model ----
(***************************************************************************)
(* Advance ledger, salary payment, settlement history, attendance and      *)
(* bonus records of the labour management server (routes/advances.js,      *)
(* routes/bonus.js, routes/entries.js, routes/holidays.js,                 *)
(* routes/reports.js with the Worker,                                      *)
(* Advance, Payment, DailyEntry, Holiday, Bonus, SalaryHistory and         *)
(* BonusHistory collections).                                              *)
(*                                                                         *)
(* Amounts are integers (rupees).  A request handler runs from one await   *)
(* to the next in one step, and the steps of the requests in flight        *)
(* interleave.  Attendance entries are dated at the local midnight of the  *)
(* server's time zone, the bounds of a salary period at the UTC midnight.  *)
(* A ledger transaction carries the time its handler read when it built    *)
(* the document, one await before the save, or the date of its caller.     *)
(* Each specification issues the requests of some routes with              *)
(* small inputs: Spec the ledger routes with every amount,                 *)
(* SalaryHistorySpec, BonusHistorySpec, SettleSpec and PostingSpec the     *)
(* finalize routes, FrameSpec every route of the advances, bonus, entries  *)
(* and reports routers, ConcSpec ledger requests on a funded ledger,       *)
(* DatedSpec the ledger routes with caller dates, BonusCalcSpec,           *)
(* BonusAdjustSpec and DepositSpec the bonus routes, CohortSpec the bonus  *)
(* routes for workers that are deactivated and activated, AttendanceSpec   *)
(* and ReportSpec the attendance routes and reads, ReportSpec also the     *)
(* holiday routes, EntryConcSpec concurrent saves of one day.              *)
(***************************************************************************)
EXTENDS Integers, Sequences, FiniteSets, TLC

\* ------------------------------------------------------------------ bounds
MaxTx == 2        \* most ledger transactions a run writes
MaxAmt == 2       \* largest amount a caller passes
MaxRecs == 2      \* most worker records in one finalize call
MaxHist == 2      \* most bonus history snapshots a run saves
MaxSnap == 1      \* most salary history snapshots a run saves
MaxPay == 1       \* most salary payments a run makes
MaxDay == 2       \* the days of the year that attendance is entered for
MaxNotes == 1     \* most notes the adjustments write to a bonus record
MaxAdj == 2       \* most notes of a bonus record in DepositSpec
MaxReqs == 2      \* most requests in flight together
MaxPeers == 1     \* most requests that arrive while one request is in flight
MaxFund == 1      \* most advances given before the requests arrive
MaxDel == 1       \* most attendance entries, and most holidays of a day, a run deletes
MaxClock == 2     \* the latest time the clock shows: at most two distinct readings

\* ------------------------------------------------------------ input domains
Workers == {"w1", "w2"}
WorkerList == <<"w1", "w2">>         \* Worker.find(): the workers as stored
NoWorker == "wx"                     \* an id Worker.findById does not find
WorkerIds == Workers \cup {NoWorker}
Amounts == (0 - 1) .. MaxAmt         \* negative, zero and positive amounts

\* ------------------------------------------------------------------- state
VARIABLES
  advanceBalance,      \* Worker.advanceBalance, per worker
  totalAdvanceTaken,   \* Worker.totalAdvanceTaken
  totalAdvanceRepaid,  \* Worker.totalAdvanceRepaid
  totalEarnings,       \* Worker.totalEarnings
  advances,            \* the Advance collection, in insertion order
  advanceDates,        \* Advance.date of each document of advances
  payments,            \* the Payment collection, in insertion order
  salaryHistory,       \* the SalaryHistory collection, in insertion order
  bonusHistory,        \* the BonusHistory collection, each document with its id
  nextHistoryId,       \* the next fresh BonusHistory id
  bonuses,             \* the Bonus collection
  entries,             \* the DailyEntry collection
  entriesDeleted,      \* the number of DailyEntry documents deleted so far
  totalDaysWorked,     \* Worker.totalDaysWorked
  totalDaysAbsent,     \* Worker.totalDaysAbsent
  holidays,            \* the Holiday collection: the days marked
  holidaysDeleted,     \* per day, the number of its Holiday documents deleted so far
  isActive,            \* Worker.isActive, per worker
  timeZone,            \* the time zone of the server process
  clock,               \* the time new Date() read last, 0 before the first reading
  last,                \* the request answered last and its response
  reqs                 \* the requests in flight

ledgerVars == <<advanceBalance, totalAdvanceTaken, totalAdvanceRepaid, advances, advanceDates>>
payVars == <<totalEarnings, payments>>
histVars == <<salaryHistory, bonusHistory, nextHistoryId>>
attVars == <<entries, entriesDeleted, totalDaysWorked, totalDaysAbsent, holidays,
            holidaysDeleted>>
dbVars == <<ledgerVars, payVars, histVars, bonuses, attVars, timeZone, isActive>>
vars == <<advanceBalance, totalAdvanceTaken, totalAdvanceRepaid, totalEarnings,
          advances, advanceDates, payments, salaryHistory, bonusHistory, nextHistoryId,
          bonuses, entries, entriesDeleted, totalDaysWorked, totalDaysAbsent, holidays,
          holidaysDeleted, timeZone, isActive, clock, last, reqs>>

\* The part of the database the advance routes read and write.
Db == [bal |-> advanceBalance, taken |-> totalAdvanceTaken,
       repaid |-> totalAdvanceRepaid, adv |-> advances, dates |-> advanceDates]

\* The whole database.
Database ==
  [bal |-> advanceBalance, taken |-> totalAdvanceTaken, repaid |-> totalAdvanceRepaid,
   adv |-> advances, dates |-> advanceDates, earnings |-> totalEarnings,
   payments |-> payments, salaryHistory |-> salaryHistory, bonusHistory |-> bonusHistory,
   bonuses |-> bonuses, entries |-> entries, worked |-> totalDaysWorked,
   absent |-> totalDaysAbsent, holidays |-> holidays, active |-> isActive]

Max(a, b) == IF a >= b THEN a ELSE b
Min(a, b) == IF a <= b THEN a ELSE b

\* --------------------------------------------------- Advance documents
\* notes tells the route that wrote the document: callers send no notes of
\* their own, so notes is "" or the text the route composes.
AdvanceDoc(w, type, amount, balanceAfter, notes) ==
  [worker |-> w, type |-> type, amount |-> amount, balanceAfter |-> balanceAfter,
   notes |-> notes]

\* A save that overwrites the newest document instead of adding one.
InsertAdvance_overwrite(db, doc, date) ==
  [db EXCEPT !.adv = IF @ = <<>> THEN <<doc>> ELSE [@ EXCEPT ![Len(@)] = doc],
             !.dates = IF @ = <<>> THEN <<date>> ELSE [@ EXCEPT ![Len(@)] = date]]

\* new Date(): the times the clock may show when a handler reads it.  The
\* clock counts milliseconds: it shows the time it showed at the reading
\* before, or a later one.  Only the order of the readings matters, so a
\* later time is the next one; the first reading is 1, and at MaxClock the
\* clock stands.
Now == {t \in clock .. clock + 1 : 1 <= t /\ t <= MaxClock}

\* date ? new Date(date) : new Date(), evaluated when the handler builds the
\* document: the caller's date, or the time the handler read.
AdvanceDate(r, now) == IF r.arg.dated THEN r.arg.date ELSE now

\* advance.save() / Advance.create(): one document appended, with the date
\* the handler gave it when it built it.
InsertAdvance(db, doc, date) ==
  [db EXCEPT !.adv = Append(@, doc), !.dates = Append(@, date)]

\* Worker.findByIdAndUpdate(w, {advanceBalance: nb, $inc: {totalAdvanceTaken: a}})
UpdateTaken(db, w, nb, a) ==
  [db EXCEPT !.bal[w] = nb, !.taken[w] = @ + a]

\* Worker.findByIdAndUpdate(w, {advanceBalance: nb, $inc: {totalAdvanceRepaid: a}})
UpdateRepaid(db, w, nb, a) ==
  [db EXCEPT !.bal[w] = nb, !.repaid[w] = @ + a]

\* Responses: the HTTP status and the error message of the route.
Resp(st, e) == [status |-> st, error |-> e]
Created == Resp(201, "")
Ok == Resp(200, "")

\* ------------------------------------------------------------ the requests
\* A handler runs from one await to the next in one step; between two awaits
\* of a request the awaits of the other requests in flight may complete.  A
\* request in flight holds what its handler holds in its local variables: pc
\* is the await it stands at, bal the advanceBalance of the worker it read,
\* post the Advance document it is about to save and date the date of that
\* document, k and j the places its loops
\* are at, found the document a query returned or the payload made of it,
\* processed the records pushed so far, present and absent the counts read,
\* out the documents of the response body.  arg holds the further arguments of
\* the request.  posted are the places of the ledger it wrote, before the
\* number of requests in flight when it arrived, peers the number of requests
\* that were in flight at some time while it was (MaxReqs stands for more),
\* and base the database it arrived at when no other request was in flight.
NoRecs == <<>>
NoBase == [none |-> TRUE]
NoPost == AdvanceDoc(NoWorker, "none", 0, 0, "")

\* What a caller that issues a request on its own holds from the response
\* before: the balance before a give when it deposits the amount the give
\* gave, the drafts of a calculate call when it repeats that call.
NoPrev == [none |-> TRUE]
Previous(op, w, amount, arg) ==
  IF reqs # <<>> \/ last.peers # 0 THEN NoPrev
  ELSE IF op = "deposit" /\ last.op = "give" /\ last.status = 201
          /\ last.w = w /\ last.amount = amount
         THEN [bal |-> last.base.bal[w]]
  ELSE IF op \in {"calculate", "calculateDateRange"} /\ last.op = op /\ last.status = 200
          /\ last.amount = amount /\ last.arg = arg
         THEN [out |-> last.out]
  ELSE NoPrev

Request(op, w, amount, recs, arg) ==
  [op |-> op, w |-> w, amount |-> amount, recs |-> recs, arg |-> arg, id |-> 0,
   pc |-> "read", k |-> 1, j |-> 1, bal |-> 0, post |-> NoPost, date |-> 0,
   earnings |-> 0,
   found |-> {}, processed |-> <<>>, present |-> 0, absent |-> 0, out |-> {},
   posted |-> <<>>, status |-> 0, error |-> "", at |-> 0,
   base |-> IF reqs = <<>> THEN Database ELSE NoBase,
   prev |-> Previous(op, w, amount, arg),
   before |-> Len(reqs), peers |-> Len(reqs)]

\* A response: the arguments of the request, its answer and what its handler
\* held.  seq tells one response from the next.
Reply(r, seq) ==
  [seq |-> seq, op |-> r.op, w |-> r.w, amount |-> r.amount, recs |-> r.recs, arg |-> r.arg,
   id |-> r.id, status |-> r.status, error |-> r.error, at |-> r.at, out |-> r.out,
   bal |-> r.bal, found |-> r.found, posted |-> r.posted, base |-> r.base,
   prev |-> r.prev, before |-> r.before, peers |-> r.peers]

\* The request answered last, until the next request arrives.
Response(r) == Reply(r, 1 - last.seq)
NoRequest ==
  [op |-> "none", w |-> NoWorker, amount |-> 0, recs |-> NoRecs, arg |-> [none |-> TRUE],
   id |-> 0, status |-> 0, error |-> "", at |-> 0, out |-> {}, bal |-> 0, found |-> {},
   posted |-> <<>>, base |-> NoBase, prev |-> NoPrev, before |-> 0, peers |-> 0]

SetDb(db) ==
  /\ advanceBalance' = db.bal
  /\ totalAdvanceTaken' = db.taken
  /\ totalAdvanceRepaid' = db.repaid
  /\ advances' = db.adv
  /\ advanceDates' = db.dates

\* res.status(st).json(...): the handler ends.
Answer(r, resp) == [r EXCEPT !.pc = "done", !.status = resp.status, !.error = resp.error]

\* The request enters its handler, which runs to its first await; a handler
\* that answers before its first await never is in flight.
Arrive(r) ==
  /\ IF r.pc = "done"
     THEN last' = Response(r) /\ UNCHANGED reqs
     ELSE /\ Len(reqs) < MaxReqs
          /\ \A i \in 1 .. Len(reqs) : reqs[i].peers < MaxPeers
          /\ reqs' = Append([i \in 1 .. Len(reqs) |-> [reqs[i] EXCEPT !.peers = Min(MaxReqs, @ + 1)]], r)
          /\ last' = Reply(NoRequest, last.seq)
  /\ UNCHANGED <<dbVars, clock>>

\* The handler of request i has run to its next await, or to its response.
Remove(q, i) == SubSeq(q, 1, i - 1) \o SubSeq(q, i + 1, Len(q))
\* The routes that take a date from their caller, and the finalize routes.
LedgerOps == {"give", "repay", "deposit"}
FinalizeOps == {"salaryFinalize", "bonusFinalize"}

\* A handler that has come to the save of a document built that document in
\* the step before; it read the clock for the date unless the caller sent one.
ReadClock(r) == r.pc = "save" /\ ~(r.op \in LedgerOps /\ r.arg.dated)
Proceed(i, r) ==
  /\ IF r.pc = "done"
     THEN reqs' = Remove(reqs, i) /\ last' = Response(r)
     ELSE reqs' = [reqs EXCEPT ![i] = r] /\ UNCHANGED last
  /\ clock' = IF ReadClock(r) THEN r.date ELSE clock

\* The handler builds the Advance document, dated as it is built, and awaits
\* its save.
Post(r, doc, date) == [r EXCEPT !.pc = "save", !.post = doc, !.date = date]

\* ------------------------------------------------------- POST /advances/give
\* The route checks nothing about the amount.
GiveNewBalance(bal, amount) == bal + amount

giveAdvance(r, bal, now) ==
  Post(r, AdvanceDoc(r.w, "advance", r.amount, GiveNewBalance(bal, r.amount), ""),
       AdvanceDate(r, now))

\* ------------------------------------------------------ POST /advances/repay
RepayCheck(bal, amount) ==
  IF amount > bal THEN Resp(400, "Repayment amount exceeds advance balance")
  ELSE Created
RepayNewBalance(bal, amount) == bal - amount

recordRepayment(r, bal, now) ==
  IF RepayCheck(bal, r.amount).status # 201 THEN Answer(r, RepayCheck(bal, r.amount))
  ELSE Post(r, AdvanceDoc(r.w, "repayment", r.amount, RepayNewBalance(bal, r.amount), ""),
            AdvanceDate(r, now))

\* ---------------------------------------------------- POST /advances/deposit
DepositCheck(bal, amount) ==
  IF amount = 0 \/ amount <= 0 THEN Resp(400, "Invalid deposit amount")
  ELSE IF bal <= 0 THEN Resp(400, "No outstanding advance to deposit")
  ELSE IF amount > bal THEN Resp(400, "Deposit amount exceeds advance balance")
  ELSE Created
DepositNewBalance(bal, amount) == bal - amount
DepositNotes == "Deposit"            \* notes || 'Deposit', the caller sending none

recordDeposit(r, bal, now) ==
  IF DepositCheck(bal, r.amount).status # 201 THEN Answer(r, DepositCheck(bal, r.amount))
  ELSE Post(r, AdvanceDoc(r.w, "deposit", r.amount, DepositNewBalance(bal, r.amount),
                          DepositNotes),
            AdvanceDate(r, now))

\* ------------------------------------------------------ POST /advances/salary
\* Sum of totalPay of the worker's DailyEntry documents inside the period.
RECURSIVE SumPay(_)
SumPay(S) ==
  IF S = {} THEN 0
  ELSE LET e == CHOOSE x \in S : TRUE IN e.totalPay + SumPay(S \ {e})

\* Times are minutes of UTC time.  An entry is dated parseLocalDate(day), the
\* midnight of the day in the time zone of the server; new Date("YYYY-MM-DD")
\* is the midnight of the day in UTC.
TimeZones == {"Asia/Kolkata", "UTC", "America/New_York"}
UtcOffset(tz) ==
  IF tz = "Asia/Kolkata" THEN 330 ELSE IF tz = "America/New_York" THEN 0 - 300 ELSE 0
MinutesOfDay == 1440
LocalMidnight(day, tz) == day * MinutesOfDay - UtcOffset(tz)
UtcMidnight(day) == day * MinutesOfDay

\* DailyEntry.find({worker, date: {$gte: new Date(start), $lte: new Date(end)}})
EntriesFromUtc(ents, w, start, end, tz) ==
  {e \in ents : /\ e.worker = w
                /\ LocalMidnight(e.date, tz) >= UtcMidnight(start)
                /\ LocalMidnight(e.date, tz) <= UtcMidnight(end)}

PeriodEarnings(ents, w, periodStart, periodEnd, tz) ==
  SumPay(EntriesFromUtc(ents, w, periodStart, periodEnd, tz))

\* A deduction that is not capped by the balance.
SalaryDeduction_uncapped(advanceDeduction, bal) == advanceDeduction

SalaryDeduction(advanceDeduction, bal) == Min(advanceDeduction, bal)

PaymentDoc(w, earnings, deduction) ==
  [worker |-> w, amount |-> earnings, advanceDeducted |-> deduction,
   netAmount |-> earnings - deduction]

\* After payment.save(): a repayment of the deduction when that is positive,
\* dated now, else the update of the worker's earnings alone.
salaryPayment(r, now) ==
  LET deduction == SalaryDeduction(r.amount, r.bal) IN
  IF deduction > 0
  THEN Post(r, AdvanceDoc(r.w, "repayment", deduction, r.bal - deduction,
                          "Deducted from salary"), now)
  ELSE [r EXCEPT !.pc = "update", !.post = NoPost]

\* ------------------------------------------- POST /reports/save-salary-history
SalaryRecs(W, Dep, Adv, Pay, Fin) ==
  [workerId : W, deposit : Dep, newAdvance : Adv,
   totalHoursWorked : {0}, totalPay : Pay, payout : {0}, finalAmount : Fin]

SeqsUpTo(S, n) == UNION {[1..k -> S] : k \in 0..n}

\* The snapshot pushed for one record.  The SalaryHistory schema has no path
\* newAdvance or payout, so the stored snapshot carries neither; finalAmount
\* is the value the caller sent.
SalarySnapshot(rec, balAtRead) ==
  [worker |-> rec.workerId, totalHoursWorked |-> rec.totalHoursWorked,
   totalPay |-> rec.totalPay, deposit |-> rec.deposit,
   finalAmount |-> rec.finalAmount, advanceBalanceAtSave |-> balAtRead]

\* A deposit step that checks nothing.
SalaryDepositCheck_accept(bal, deposit) == Created

\* The deposit step of one record; worker.advanceBalance was read as bal.
SalaryDepositCheck(bal, deposit) ==
  IF bal <= 0 THEN Resp(400, "No advance balance for worker")
  ELSE IF deposit > bal THEN Resp(400, "Deposit for worker exceeds advance balance")
  ELSE Created

\* A new-advance step that files its transaction before the deposit's.
SalaryPostAdvance_swapped(db, doc, date) ==
  LET n == Len(db.adv) IN
  [db EXCEPT !.adv = IF n > 0 /\ @[n].worker = doc.worker /\ @[n].type = "deposit"
                     THEN SubSeq(@, 1, n - 1) \o <<doc, @[n]>>
                     ELSE Append(@, doc),
             !.dates = Append(@, date)]

\* Advance.create of the new advance of a record.
SalaryPostAdvance(db, doc, date) == InsertAdvance(db, doc, date)

\* The loop goes on to its next record, or to the save of the history.
NextRecord(r) ==
  [r EXCEPT !.k = @ + 1, !.pc = IF r.k + 1 > Len(r.recs) THEN "history" ELSE "read"]

\* processedRecords.push: the snapshot carries the balance read at the head of
\* the loop.
SalaryPush(r) ==
  NextRecord([r EXCEPT !.processed = Append(@, SalarySnapshot(r.recs[r.k], r.bal))])

\* The body of the loop for one record, the worker read with balance bal: the
\* deposit is checked and posted, dated now; without a deposit the new
\* advance is next.
SalaryRecord(r, bal, now) ==
  LET rec == r.recs[r.k]
      w == rec.workerId IN
  IF rec.deposit > 0
  THEN IF SalaryDepositCheck(bal, rec.deposit).status # 201
       THEN [Answer(r, SalaryDepositCheck(bal, rec.deposit)) EXCEPT !.at = r.k, !.w = w]
       ELSE Post(r, AdvanceDoc(w, "deposit", rec.deposit, bal - rec.deposit,
                               "deposited from salary"), now)
  ELSE IF rec.newAdvance > 0 THEN [r EXCEPT !.pc = "reread"]
  ELSE SalaryPush(r)

\* The worker is read again and the new advance is added to the balance read.
SalaryAdvance(r, bal, now) ==
  LET rec == r.recs[r.k] IN
  Post(r, AdvanceDoc(rec.workerId, "advance", rec.newAdvance, bal + rec.newAdvance,
                     "taken advance with salary"), now)

\* processedRecords.reduce((sum, r) => sum + r.field, 0) over a column.
RECURSIVE SumSeq(_)
SumSeq(q) == IF q = <<>> THEN 0 ELSE Head(q) + SumSeq(Tail(q))

\* new SalaryHistory({...}): the totals the schema has a path for.
SalaryHistoryDoc(processed) ==
  [records |-> processed,
   totalHours |-> SumSeq([i \in 1..Len(processed) |-> processed[i].totalHoursWorked]),
   totalAmount |-> SumSeq([i \in 1..Len(processed) |-> processed[i].totalPay]),
   totalDeposit |-> SumSeq([i \in 1..Len(processed) |-> processed[i].deposit]),
   totalFinal |-> SumSeq([i \in 1..Len(processed) |-> processed[i].finalAmount])]

\* --------------------------------------------- POST /bonus/save-bonus-history
BonusRecs(W, Dep, Base, Pen, Extra) ==
  [workerId : W, deposit : Dep, baseBonusAmount : Base,
   totalPenalty : Pen, extraBonus : Extra]

BonusDepositNewBalance(bal, deposit) == Max(0, bal - deposit)

BonusSnapshot(rec, balAtRead) ==
  LET finalBonusAmount == Max(0, rec.baseBonusAmount - rec.totalPenalty + rec.extraBonus) IN
  [worker |-> rec.workerId, baseBonusAmount |-> rec.baseBonusAmount,
   totalPenalty |-> rec.totalPenalty, extraBonus |-> rec.extraBonus,
   deposit |-> rec.deposit, finalBonusAmount |-> finalBonusAmount,
   amountToGiveEmployee |-> Max(0, finalBonusAmount - rec.deposit),
   advanceBalanceAtSave |-> balAtRead]

BonusPush(r) ==
  NextRecord([r EXCEPT !.processed = Append(@, BonusSnapshot(r.recs[r.k], r.bal))])

\* The body of the loop for one record: a deposit is posted without a check.
BonusRecord(r, bal, now) ==
  LET rec == r.recs[r.k] IN
  IF rec.deposit > 0
  THEN Post(r, AdvanceDoc(rec.workerId, "deposit", rec.deposit,
                          BonusDepositNewBalance(bal, rec.deposit), "deposited from bonus"),
            now)
  ELSE BonusPush(r)

BonusHistoryDoc(id, processed) ==
  [id |-> id, records |-> processed,
   totalBaseBonusAmount |-> SumSeq([i \in 1..Len(processed) |-> processed[i].baseBonusAmount]),
   totalPenalty |-> SumSeq([i \in 1..Len(processed) |-> processed[i].totalPenalty]),
   totalExtraBonus |-> SumSeq([i \in 1..Len(processed) |-> processed[i].extraBonus]),
   totalDeposit |-> SumSeq([i \in 1..Len(processed) |-> processed[i].deposit]),
   totalFinalAmount |-> SumSeq([i \in 1..Len(processed) |-> processed[i].amountToGiveEmployee]),
   totalAdvanceDue |-> SumSeq([i \in 1..Len(processed) |-> processed[i].advanceBalanceAtSave])]

\* ------------------------------------------ the requests of the ledger routes
Give(w, amount) == Arrive(Request("give", w, amount, NoRecs, [dated |-> FALSE]))
Repay(w, amount) == Arrive(Request("repay", w, amount, NoRecs, [dated |-> FALSE]))
Deposit(w, amount) == Arrive(Request("deposit", w, amount, NoRecs, [dated |-> FALSE]))

\* give, repay and deposit with a date in the body: date ? new Date(date) :
\* new Date().
GiveAt(w, amount, date) ==
  Arrive(Request("give", w, amount, NoRecs, [dated |-> TRUE, date |-> date]))
RepayAt(w, amount, date) ==
  Arrive(Request("repay", w, amount, NoRecs, [dated |-> TRUE, date |-> date]))
DepositAt(w, amount, date) ==
  Arrive(Request("deposit", w, amount, NoRecs, [dated |-> TRUE, date |-> date]))

SalaryPay(w, advanceDeduction, periodStart, periodEnd) ==
  Arrive(Request("salary", w, advanceDeduction, NoRecs,
                 [periodStart |-> periodStart, periodEnd |-> periodEnd]))

\* periodOk: periodStart, periodEnd and records are all present in the body.
Finalize(op, periodOk, recs) ==
  LET r == Request(op, NoWorker, 0, recs, [periodOk |-> periodOk]) IN
  Arrive(IF ~periodOk THEN Answer(r, Resp(400, "Missing required fields"))
         ELSE [r EXCEPT !.pc = IF recs = <<>> THEN "history" ELSE "read"])

SalaryFinalize(periodOk, recs) == Finalize("salaryFinalize", periodOk, recs)
BonusFinalize(periodOk, recs) == Finalize("bonusFinalize", periodOk, recs)

\* DELETE /bonus/history/:id
DeleteBonusHistory(id) ==
  Arrive([Request("deleteHistory", NoWorker, 0, NoRecs, [none |-> TRUE]) EXCEPT
            !.id = id, !.pc = "findHistory"])

\* GET /bonus/history/all
ReadBonusHistory ==
  Arrive([Request("readHistory", NoWorker, 0, NoRecs, [none |-> TRUE]) EXCEPT
            !.pc = "listHistory"])

\* ------------------------------------------------------ POST /entries
hourlyRate == [w \in Workers |-> 1]      \* Worker.hourlyRate

EntryPay(status, hoursWorked, rate) ==
  IF status \in {"present", "holiday", "half-day"} THEN hoursWorked * rate ELSE 0

\* A date is a calendar day: parseLocalDate gives its midnight and the routes
\* query the range from that midnight to 23:59:59.999.
EntryDoc(id, w, date, status, hoursWorked, totalPay) ==
  [id |-> id, worker |-> w, date |-> date, status |-> status,
   hoursWorked |-> hoursWorked, totalPay |-> totalPay]

\* The _id of a new document: no document of the worker and the day is stored
\* when one is created, and a later one is created after a delete.
NewEntryId(w, date, deleted) == <<w, date, deleted>>
NoEntry == <<NoWorker, 0, 0>>            \* an id DailyEntry.findById does not find

\* DailyEntry.find({worker, date: {$gte: rangeStart, $lte: rangeEnd}})
EntriesOn(ents, w, date) == {e \in ents : e.worker = w /\ e.date = date}

\* The values a handler gives the entry of the day.
Draft(status, hoursWorked, totalPay) ==
  [status |-> status, hoursWorked |-> hoursWorked, totalPay |-> totalPay]

\* An index that lets every document in.
DuplicateKey_off(ents, w, date) == FALSE

\* dailyEntrySchema.index({worker: 1, date: 1}, {unique: true})
DuplicateKey(ents, w, date) == \E e \in ents : e.worker = w /\ e.date = date

\* The paths of the document found that the handler gave another value.
Modified(f, d) ==
  f.status # d.status \/ f.hoursWorked # d.hoursWorked \/ f.totalPay # d.totalPay

\* A save of the document found that stores one more document.
SaveFound_insert(ents, f, d) ==
  ents \cup {EntryDoc(<<f.worker, f.date, f.id[3] + 1>>, f.worker, f.date,
                      d.status, d.hoursWorked, d.totalPay)}

\* dailyEntry.save() of the document found: the modified paths are written to
\* the stored document of its _id.
SaveFound(ents, f, d) ==
  {IF e.id = f.id
   THEN [e EXCEPT !.status = IF d.status # f.status THEN d.status ELSE @,
                  !.hoursWorked = IF d.hoursWorked # f.hoursWorked THEN d.hoursWorked ELSE @,
                  !.totalPay = IF d.totalPay # f.totalPay THEN d.totalPay ELSE @]
   ELSE e : e \in ents}

\* DailyEntry.countDocuments({worker, status: {$in: S}})
CountStatus(ents, w, S) == Cardinality({e \in ents : e.worker = w /\ e.status \in S})

UpsertEntry(w, date, status, hoursWorked) ==
  Arrive(Request("upsertEntry", w, hoursWorked, NoRecs, [date |-> date, status |-> status]))

\* ------------------------------------------------------ POST /entries/bulk
BulkRecs(W, St, H) == [workerId : W, status : St, hoursWorked : H]

\* for (const entry of results): the counts of the first saved entry are
\* next, or the response when nothing was saved.
BulkStats(r) ==
  IF r.processed = <<>> THEN Answer(r, Ok) ELSE [r EXCEPT !.j = 1, !.pc = "present"]

\* The loop goes on to the next entry of the list.
BulkNext(r) ==
  IF r.k + 1 > Len(r.recs) THEN BulkStats([r EXCEPT !.k = @ + 1])
  ELSE [r EXCEPT !.k = @ + 1, !.pc = "read"]

\* results.push(dailyEntry)
BulkPush(r) ==
  BulkNext([r EXCEPT !.processed = Append(@, [worker |-> r.recs[r.k].workerId])])

BulkUpsert(date, list) ==
  LET r == Request("bulkUpsert", NoWorker, 0, list, [date |-> date]) IN
  Arrive(IF list = <<>> THEN Answer(r, Ok) ELSE r)

\* ---------------------------------------------- POST /entries/mark-holiday
DailyWorkingHours == 8
dailyWorkingHours == [w \in Workers |-> DailyWorkingHours]   \* the schema default

\* for (const worker of workers): the next worker, or the response.
HolidayNext(r) ==
  IF r.k + 1 > Len(r.recs) THEN Answer([r EXCEPT !.k = @ + 1], Ok)
  ELSE [r EXCEPT !.k = @ + 1, !.pc = "findEntry"]

\* The route writes the Holiday and the entries; the workers' counts are left.
MarkHoliday(date) ==
  Arrive([Request("markHoliday", NoWorker, 0, NoRecs, [date |-> date]) EXCEPT
            !.pc = "findHoliday"])

\* ------------------------------------------------------ POST /holidays
\* The days a Holiday may be dated: a day of the attendance or the day before
\* the first.
HolidayDays == 0 .. MaxDay

\* dayStart = new Date(date); dayStart.setHours(0, 0, 0, 0): the day whose
\* local midnight is the last at or before the UTC midnight of the date.
HolidayDay(date, tz) ==
  CHOOSE d \in HolidayDays :
    /\ LocalMidnight(d, tz) <= UtcMidnight(date)
    /\ UtcMidnight(date) < LocalMidnight(d + 1, tz)

\* The _id of the Holiday document of a day: the day and the number of
\* documents of the day deleted before it was created.
HolidayId(day, deleted) == <<day, deleted[day]>>
NoHoliday == <<0, 0 - 1>>                 \* an id Holiday.findById does not find

PostHoliday(date) ==
  Arrive([Request("postHoliday", NoWorker, 0, NoRecs, [date |-> date]) EXCEPT
            !.pc = "upsertHoliday"])

\* ---------------------------------------------------- DELETE /holidays/:id
DeleteHoliday(id) ==
  Arrive([Request("deleteHoliday", NoWorker, 0, NoRecs, [holiday |-> id]) EXCEPT
            !.pc = "removeHoliday"])

\* ------------------------------------------------------ DELETE /entries/:id
DeleteEntry(id) ==
  Arrive([Request("deleteEntry", NoWorker, 0, NoRecs, [entry |-> id]) EXCEPT
            !.pc = "removeEntry"])

\* ------------------------------------- GET /advances/calculate/:workerId
\* entries.reduce((sum, e) => sum + e.field, 0) over the entries found.
RECURSIVE SumHours(_)
SumHours(S) ==
  IF S = {} THEN 0
  ELSE LET e == CHOOSE x \in S : TRUE IN e.hoursWorked + SumHours(S \ {e})

PeriodSummary(ents, w, startDate, endDate, tz) ==
  LET found == EntriesFromUtc(ents, w, startDate, endDate, tz) IN
  [worker |-> w, totalHours |-> SumHours(found), totalPay |-> SumPay(found),
   daysPresent |-> Cardinality({e \in found : e.status \in {"present", "holiday"}}),
   daysAbsent |-> Cardinality({e \in found : e.status = "absent"})]

CalculateWorker(w, startDate, endDate) ==
  Arrive(Request("calculateWorker", w, 0, NoRecs,
                 [startDate |-> startDate, endDate |-> endDate]))

\* ----------------------------------------- GET /reports/all-workers-summary

\* The hours and the pay an entry adds to its worker's row: a holiday counts
\* the worker's daily working hours, and hours x rate when its stored pay is 0.
ReportHours(e) ==
  IF e.status = "holiday" THEN dailyWorkingHours[e.worker] ELSE e.hoursWorked
ReportPay(e) ==
  IF e.status = "holiday" /\ e.totalPay = 0
  THEN ReportHours(e) * hourlyRate[e.worker] ELSE e.totalPay

\* entries.forEach over the entries of one worker.
RECURSIVE ReportRow(_, _)
ReportRow(w, S) ==
  IF S = {} THEN [worker |-> w, totalHoursWorked |-> 0, totalPay |-> 0,
                  daysPresent |-> 0, daysAbsent |-> 0]
  ELSE LET e == CHOOSE x \in S : TRUE
           r == ReportRow(w, S \ {e}) IN
       [r EXCEPT !.totalHoursWorked = @ + ReportHours(e),
                 !.totalPay = @ + ReportPay(e),
                 !.daysPresent = @ + (IF e.status \in {"present", "holiday"} THEN 1 ELSE 0),
                 !.daysAbsent = @ + (IF e.status = "absent" THEN 1 ELSE 0)]

\* One row for every worker that has an entry in the range; the bounds of the
\* range are parseLocalDate(startDate) and the end of the day of endDate.
allWorkersSummary(ents, startDate, endDate) ==
  LET found == {e \in ents : e.date >= startDate /\ e.date <= endDate} IN
  {ReportRow(w, {e \in found : e.worker = w}) : w \in {e.worker : e \in found}}

AllWorkersSummary(startDate, endDate) ==
  Arrive([Request("allWorkersSummary", NoWorker, 0, NoRecs,
                  [startDate |-> startDate, endDate |-> endDate]) EXCEPT !.pc = "findAll"])

\* --------------------------------------------------- the bonus calculations
BonusDays == 30
BonusHours == 8
BaseBonus(rate) == BonusDays * BonusHours * rate

\* DailyEntry.find({worker, date: {$gte: periodStart, $lte: periodEnd}}), the
\* bounds being local times.
PeriodEntries(ents, w, periodStart, periodEnd) ==
  {e \in ents : e.worker = w /\ e.date >= periodStart /\ e.date <= periodEnd}
DaysAbsent(ents, w, periodStart, periodEnd) ==
  Cardinality({e \in PeriodEntries(ents, w, periodStart, periodEnd) : e.status = "absent"})
DaysWorked(ents, w, periodStart, periodEnd) ==
  Cardinality({e \in PeriodEntries(ents, w, periodStart, periodEnd) :
                 e.status \in {"present", "holiday"}})

\* Math.min(...workerData.map(w => w.totalDaysAbsent)), 0 for no worker.
MinAbsent(workerData) ==
  IF workerData = <<>> THEN 0
  ELSE CHOOSE m \in {workerData[i].totalDaysAbsent : i \in 1..Len(workerData)} :
         \A i \in 1..Len(workerData) : m <= workerData[i].totalDaysAbsent

\* POST /bonus/calculate: every absent day is charged.
AbsolutePenalty(absent, deductionPerAbsentDay) == absent * deductionPerAbsentDay
\* POST /bonus/calculate-date-range: absent days above the minimum are charged.
ThresholdPenalty_absolute(absent, minAbsent, deductionPerAbsentDay) ==
  absent * deductionPerAbsentDay
ThresholdPenalty(absent, minAbsent, deductionPerAbsentDay) ==
  Max(0, absent - minAbsent) * deductionPerAbsentDay

FinalBonus(base, penalty, extra) == Max(0, base - penalty + extra)
AmountToGive(final, deposit) == Max(0, final - deposit)

\* The requests name the months of one year, and day d of the attendance is
\* the first day of month d.  periodStart = new Date(sY, sM - 1, 1) and
\* periodEnd = new Date(eY, eM, 0, 23, 59, 59, 999) are held as the months
\* <<sM, eM>>; the year route reads from new Date(year, 0, 1) to
\* new Date(year, 11, 31, 23, 59, 59, 999).
Months == 12
YearPeriod == <<1, Months>>
NoPeriod == <<>>               \* a document without periodStart and periodEnd
PeriodStart(p) == p[1]
PeriodEnd(p) == p[2]

\* undefined: the _id of no document, which a client sends as the bonusId
\* "undefined" of a draft that is not stored.
Undefined == 0

\* A query that matches several documents yields the first in natural order,
\* which is the order of insertion: no route deletes a Bonus document, and
\* the _id of a document is its place in that order.  The query yields a set
\* of no document or one.
NewBonusId(bs) == Cardinality(bs) + 1
FirstBonus(S) == IF S = {} THEN {} ELSE {CHOOSE b \in S : \A c \in S : b.id <= c.id}
\* Bonus.findById(id)
BonusById(bs, id) == {b \in bs : b.id = id}
\* Bonus.findOne({worker, periodStart, periodEnd})
ExistingBonus(bs, w, p) == FirstBonus({b \in bs : b.worker = w /\ b.period = p})
\* Bonus.findOne({worker, year}), and the filter {year, worker} of the upsert:
\* the index {year, worker} is not unique, a worker may have several records.
BonusOfYear(bs, w) == FirstBonus({b \in bs : b.worker = w})
\* A lookup that reports twice the stored extra bonus.
StoredExtra_twice(ex) == IF ex = {} THEN 0 ELSE 2 * (CHOOSE b \in ex : TRUE).extraBonus
StoredExtra(ex) == IF ex = {} THEN 0 ELSE (CHOOSE b \in ex : TRUE).extraBonus
StoredDeposit(ex) == IF ex = {} THEN 0 ELSE (CHOOSE b \in ex : TRUE).employeeDeposit

\* bonusPayload of the two calculate routes; ex is the existing record, whose
\* _id the payload carries.
BonusPayload(ex, w, worked, absent, penalty) ==
  LET base == BaseBonus(hourlyRate[w])
      final == FinalBonus(base, penalty, StoredExtra(ex)) IN
  [id |-> IF ex = {} THEN Undefined ELSE (CHOOSE b \in ex : TRUE).id,
   worker |-> w, baseBonusAmount |-> base, totalDaysWorked |-> worked,
   totalDaysAbsent |-> absent, totalPenalty |-> penalty,
   extraBonus |-> StoredExtra(ex), employeeDeposit |-> StoredDeposit(ex),
   finalBonusAmount |-> final,
   amountToGiveEmployee |-> AmountToGive(final, StoredDeposit(ex))]

\* A Bonus document: its _id, the payload fields, the period, the payment
\* fields and the notes, one for each adjustment.
BonusDoc(id, p, period, isPaid, amountPaid, notes) ==
  [id |-> id, worker |-> p.worker, period |-> period,
   baseBonusAmount |-> p.baseBonusAmount,
   totalDaysWorked |-> p.totalDaysWorked, totalDaysAbsent |-> p.totalDaysAbsent,
   totalPenalty |-> p.totalPenalty, extraBonus |-> p.extraBonus,
   employeeDeposit |-> p.employeeDeposit, finalBonusAmount |-> p.finalBonusAmount,
   amountToGiveEmployee |-> p.amountToGiveEmployee,
   isPaid |-> isPaid, amountPaid |-> amountPaid, notes |-> notes]

\* The update sets the _id of the payload: the server refuses to give the
\* document it matched another _id than its own.
UpsertThrows(bs, p) ==
  \E b \in BonusOfYear(bs, p.worker) : p.id # Undefined /\ p.id # b.id

\* Bonus.findOneAndUpdate({year, worker}, payload, {upsert: true}): the first
\* record of the worker gets the fields of the payload, or a record is
\* inserted; a payload of the year route carries no period and leaves the
\* stored one.
UpsertBonus(bs, p, period) ==
  IF BonusOfYear(bs, p.worker) = {}
  THEN bs \cup {BonusDoc(IF p.id = Undefined THEN NewBonusId(bs) ELSE p.id,
                         p, period, FALSE, 0, <<>>)}
  ELSE {IF b \in BonusOfYear(bs, p.worker)
        THEN BonusDoc(b.id, p, IF period = NoPeriod THEN b.period ELSE period,
                      b.isPaid, b.amountPaid, b.notes)
        ELSE b : b \in bs}

\* The period the payload of a calculate route carries.
PayloadPeriod(r) == IF r.op = "calculate" THEN NoPeriod ELSE r.arg.period

\* for (const worker of workers): the next worker; after the last one the
\* stored records of the year are read when persisting, else the results are
\* the response.
BonusNext(r) ==
  IF r.k + 1 > Len(r.recs)
  THEN IF r.arg.persist THEN [r EXCEPT !.k = @ + 1, !.pc = "bonuses"]
       ELSE Answer([r EXCEPT !.k = @ + 1], Ok)
  ELSE [r EXCEPT !.k = @ + 1, !.pc = IF r.op = "calculate" THEN "find" ELSE "findBonus"]

\* The payload is upserted when persisting, else pushed to the results.
Payloaded(r, p) ==
  IF r.arg.persist THEN [r EXCEPT !.found = {p}, !.pc = "upsert"]
  ELSE BonusNext([r EXCEPT !.out = @ \cup {p}])

\* POST /bonus/calculate: the body of the loop after Bonus.findOne.
calculateYear(r, ex) ==
  Payloaded(r, BonusPayload(ex, r.recs[r.k].workerId, r.present, r.absent,
                            AbsolutePenalty(r.absent, r.amount)))

\* POST /bonus/calculate-date-range: the body of the second loop after
\* Bonus.findOne; workerData is held in processed.
calculateDateRange(r, ex) ==
  LET d == r.processed[r.k] IN
  Payloaded(r, BonusPayload(ex, d.worker, d.totalDaysWorked, d.totalDaysAbsent,
                            ThresholdPenalty(d.totalDaysAbsent, MinAbsent(r.processed),
                                             r.amount)))

\* workerData.push({worker, totalDaysWorked, totalDaysAbsent}) and the next
\* worker of the first loop, or the first worker of the second.
GatherData(r, worked, absent) ==
  LET s == [r EXCEPT !.processed = Append(@, [worker |-> r.recs[r.k].workerId,
                                              totalDaysWorked |-> worked,
                                              totalDaysAbsent |-> absent])] IN
  IF r.k + 1 > Len(r.recs) THEN [s EXCEPT !.k = 1, !.pc = "findBonus"]
  ELSE [s EXCEPT !.k = @ + 1, !.pc = "find"]

CalculateYear(persist, deductionPerAbsentDay) ==
  Arrive([Request("calculate", NoWorker, deductionPerAbsentDay, NoRecs,
                  [period |-> YearPeriod, persist |-> persist]) EXCEPT !.pc = "workers"])

\* parses: parseInt gives a number for each of startYear, startMonth, endYear
\* and endMonth; sM and eM are the months it gives, in the one year.
CalculateDateRange(parses, sM, eM, persist, deductionPerAbsentDay) ==
  LET r == Request("calculateDateRange", NoWorker, deductionPerAbsentDay, NoRecs,
                   [period |-> <<sM, eM>>, persist |-> persist, parses |-> parses]) IN
  Arrive(IF ~parses
         THEN Answer(r, Resp(400, "Invalid or missing startYear/startMonth/endYear/endMonth"))
         ELSE IF sM < 1 \/ sM > Months \/ eM < 1 \/ eM > Months
         THEN Answer(r, Resp(400, "startMonth and endMonth must be between 1 and 12"))
         ELSE IF PeriodStart(<<sM, eM>>) > PeriodEnd(<<sM, eM>>)
         THEN Answer(r, Resp(400, "Start date must be before or equal to end date"))
         ELSE [r EXCEPT !.pc = "workers"])

\* -------------------------------------------------------- POST /bonus/pay/:id
\* supplied: the body carries amountPaid.  amountPaid || amountToGiveEmployee
\* takes the second operand when the first is undefined or 0.
PaidAmount(supplied, amountPaid, amountToGiveEmployee) ==
  IF supplied /\ amountPaid # 0 THEN amountPaid ELSE amountToGiveEmployee

\* Bonus.findByIdAndUpdate(id, {amountPaid, isPaid: true}), b the stored
\* record and f the record read.
markPaid(b, f, supplied, amountPaid) ==
  [b EXCEPT !.amountPaid = PaidAmount(supplied, amountPaid, f.amountToGiveEmployee),
            !.isPaid = TRUE]

MarkPaid(id, supplied, amountPaid) ==
  Arrive([Request("markPaid", NoWorker, amountPaid, NoRecs,
                  [bonusId |-> id, supplied |-> supplied]) EXCEPT !.pc = "findBonus"])

\* ------------------------------------------------------------- PUT /bonus/:id
\* hasFinal: the body carries a number as finalBonusAmount.  bonus.save()
\* writes the paths that got another value than the one read.
updateBonus(b, f, hasFinal, finalBonusAmount) ==
  LET newFinal == IF hasFinal THEN finalBonusAmount ELSE f.finalBonusAmount
      newAmountToGiveEmployee == AmountToGive(newFinal, f.employeeDeposit) IN
  [b EXCEPT !.finalBonusAmount = IF newFinal # f.finalBonusAmount THEN newFinal ELSE @,
            !.amountToGiveEmployee =
               IF newAmountToGiveEmployee # f.amountToGiveEmployee
               THEN newAmountToGiveEmployee ELSE @]

UpdateBonus(id, hasFinal, finalBonusAmount) ==
  Arrive([Request("updateBonus", NoWorker, finalBonusAmount, NoRecs,
                  [bonusId |-> id, hasFinal |-> hasFinal]) EXCEPT !.pc = "findBonus"])

\* --------------------------------------- POST /bonus/add-extra-bonus/:bonusId
\* Callers send no notes of their own: the note is the text the route
\* composes with the amount, and the notes of a record are its lines.
ExtraNote(amount) == <<"Added extra bonus", amount>>
DepositNote(amount) == <<"Employee deposited", amount>>

\* The values computed from the record read.
ExtraApplied(b, amount) ==
  LET newExtra == b.extraBonus + amount
      newFinal == FinalBonus(b.baseBonusAmount, b.totalPenalty, newExtra) IN
  [b EXCEPT !.extraBonus = newExtra, !.finalBonusAmount = newFinal,
            !.amountToGiveEmployee = AmountToGive(newFinal, b.employeeDeposit),
            !.notes = Append(@, ExtraNote(amount))]

\* The record created on the fly when the worker has none.
ExtraCreated(id, w, p, amount) ==
  [id |-> id, worker |-> w, period |-> p, baseBonusAmount |-> 0, totalDaysWorked |-> 0,
   totalDaysAbsent |-> 0, totalPenalty |-> 0, extraBonus |-> amount,
   employeeDeposit |-> 0, finalBonusAmount |-> amount,
   amountToGiveEmployee |-> amount, isPaid |-> FALSE, amountPaid |-> 0,
   notes |-> <<ExtraNote(amount)>>]

\* Bonus.findByIdAndUpdate(id, {extraBonus, finalBonusAmount,
\* amountToGiveEmployee, notes}), b the stored record and f the record read.
addExtraBonus(b, f, amount) ==
  [b EXCEPT !.extraBonus = ExtraApplied(f, amount).extraBonus,
            !.finalBonusAmount = ExtraApplied(f, amount).finalBonusAmount,
            !.amountToGiveEmployee = ExtraApplied(f, amount).amountToGiveEmployee,
            !.notes = ExtraApplied(f, amount).notes]

\* The two routes that adjust a record: by the id of the record, or by the
\* worker when the id is "undefined"; the body names the period of the draft.
Adjust(op, id, workerId, p, amount, message) ==
  LET r == Request(op, workerId, amount, NoRecs, [bonusId |-> id, period |-> p]) IN
  Arrive(IF amount = 0 \/ amount <= 0 THEN Answer(r, Resp(400, message))
         ELSE [r EXCEPT !.pc = IF id = Undefined THEN "read" ELSE "findBonus"])

AddExtraBonus(id, workerId, p, amount) ==
  Adjust("addExtraBonus", id, workerId, p, amount, "Extra bonus amount must be greater than 0")

\* ----------------------------------- POST /bonus/add-employee-deposit/:bonusId
DepositExceeds_never(b, amount) == FALSE
DepositExceeds(b, amount) == amount > b.finalBonusAmount

DepositApplied(b, amount) ==
  LET newDeposit == b.employeeDeposit + amount IN
  [b EXCEPT !.employeeDeposit = newDeposit,
            !.amountToGiveEmployee = AmountToGive(b.finalBonusAmount, newDeposit),
            !.notes = Append(@, DepositNote(amount))]

DepositCreated(id, w, p, amount) ==
  [id |-> id, worker |-> w, period |-> p, baseBonusAmount |-> 0, totalDaysWorked |-> 0,
   totalDaysAbsent |-> 0, totalPenalty |-> 0, extraBonus |-> 0,
   employeeDeposit |-> amount, finalBonusAmount |-> 0,
   amountToGiveEmployee |-> Max(0, 0 - amount), isPaid |-> FALSE, amountPaid |-> 0,
   notes |-> <<DepositNote(amount)>>]

\* Bonus.findByIdAndUpdate(id, {employeeDeposit, amountToGiveEmployee, notes}),
\* b the stored record and f the record read.
addEmployeeDeposit(b, f, amount) ==
  [b EXCEPT !.employeeDeposit = DepositApplied(f, amount).employeeDeposit,
            !.amountToGiveEmployee = DepositApplied(f, amount).amountToGiveEmployee,
            !.notes = DepositApplied(f, amount).notes]

AddEmployeeDeposit(id, workerId, p, amount) ==
  Adjust("addEmployeeDeposit", id, workerId, p, amount,
         "Deposit amount must be greater than 0")

\* ------------------------------------- PUT /workers/:id, DELETE /workers/:id
\* Worker.find({isActive: true}): the active workers, as stored.
ActiveWorkers(active) == SelectSeq(WorkerList, LAMBDA w : active[w])

\* DELETE /workers/:id deactivates the worker.
DeleteWorker(id) ==
  Arrive([Request("deleteWorker", id, 0, NoRecs, [isActive |-> FALSE]) EXCEPT
            !.pc = "setActive"])

\* PUT /workers/:id with a body that carries isActive and no other field.
PutWorker(id, active) ==
  Arrive([Request("putWorker", id, 0, NoRecs, [isActive |-> active]) EXCEPT
            !.pc = "setActive"])
\* ------------------------------------------------- the awaits of the handlers
\* The routes whose handler loops over workers: the records of the body, or
\* the workers Worker.find returned, are held in recs.
LoopOps == FinalizeOps \cup {"bulkUpsert", "markHoliday", "calculate", "calculateDateRange"}
AdjustOps == {"addExtraBonus", "addEmployeeDeposit"}

\* The worker the handler works on at the place it stands at.
Awaited(r) == IF r.op \in LoopOps THEN r.recs[r.k].workerId ELSE r.w

\* What the handler does with the worker it read, up to its next await; now
\* is the time new Date() reads in this step.
OnWorker(r, bal, now) ==
  LET s == [r EXCEPT !.bal = bal] IN
  IF r.op = "give" THEN giveAdvance(s, bal, now)
  ELSE IF r.op = "repay" THEN recordRepayment(s, bal, now)
  ELSE IF r.op = "deposit" THEN recordDeposit(s, bal, now)
  ELSE IF r.op = "salaryFinalize" THEN SalaryRecord(s, bal, now)
  ELSE IF r.op = "bonusFinalize" THEN BonusRecord(s, bal, now)
  ELSE IF r.op \in {"salary", "calculateWorker"} THEN [s EXCEPT !.pc = "find"]
  ELSE IF r.op \in AdjustOps THEN [s EXCEPT !.pc = "findBonus"]
  ELSE [s EXCEPT !.pc = "findEntry"]

\* if (!worker): the loops skip the record, the other routes answer.
NoWorkerFound(r) ==
  IF r.op \in FinalizeOps THEN NextRecord(r)
  ELSE IF r.op = "bulkUpsert" THEN BulkNext(r)
  ELSE IF r.op \in AdjustOps THEN Answer(r, Resp(400, "Worker information not provided"))
  ELSE Answer(r, Resp(404, "Worker not found"))

\* await Worker.findById(workerId) and the handler up to its next await.
ReadWorker(i) ==
  /\ i \in 1..Len(reqs) /\ reqs[i].pc = "read"
  /\ \E now \in Now :
       Proceed(i, IF Awaited(reqs[i]) \notin Workers THEN NoWorkerFound(reqs[i])
                  ELSE OnWorker(reqs[i], advanceBalance[Awaited(reqs[i])], now))
  /\ UNCHANGED dbVars

\* await Worker.findById(worker._id): the fresh worker before a new advance.
RereadWorker(i) ==
  /\ i \in 1..Len(reqs) /\ reqs[i].pc = "reread"
  /\ \E now \in Now :
       Proceed(i, SalaryAdvance(reqs[i], advanceBalance[Awaited(reqs[i])], now))
  /\ UNCHANGED dbVars

\* The database after the save of the document of the request.
Saved(db, r) ==
  IF r.op = "salaryFinalize" /\ r.post.type = "advance"
  THEN SalaryPostAdvance(db, r.post, r.date)
  ELSE InsertAdvance(db, r.post, r.date)

\* await advance.save() / Advance.create(), with the balanceAfter computed
\* from the balance read and the date taken when the document was built.
SaveAdvance(i) ==
  /\ i \in 1..Len(reqs) /\ reqs[i].pc = "save"
  /\ SetDb(Saved(Db, reqs[i]))
  /\ Proceed(i, [reqs[i] EXCEPT !.pc = "update", !.posted = Append(@, Len(advances) + 1)])
  /\ UNCHANGED <<payVars, histVars, bonuses, attVars, timeZone, isActive>>

\* Worker.findByIdAndUpdate(w, {advanceBalance: newBalance, $inc: {...}})
Updated(db, doc) ==
  IF doc.type = "advance" THEN UpdateTaken(db, doc.worker, doc.balanceAfter, doc.amount)
  ELSE IF doc.type = "none" THEN db
  ELSE UpdateRepaid(db, doc.worker, doc.balanceAfter, doc.amount)

\* The handler after its update of the worker, up to its next await.
OnUpdated(r) ==
  IF r.op = "salaryFinalize"
  THEN IF r.post.type = "deposit" /\ r.recs[r.k].newAdvance > 0
       THEN [r EXCEPT !.pc = "reread"]
       ELSE SalaryPush(r)
  ELSE IF r.op = "bonusFinalize" THEN BonusPush(r)
  ELSE [r EXCEPT !.pc = "populate"]

\* await Worker.findByIdAndUpdate(...); POST /advances/salary adds the net
\* amount to totalEarnings in the same update.
UpdateWorker(i) ==
  /\ i \in 1..Len(reqs) /\ reqs[i].pc = "update"
  /\ SetDb(Updated(Db, reqs[i].post))
  /\ totalEarnings' =
       IF reqs[i].op = "salary"
       THEN [totalEarnings EXCEPT ![reqs[i].w] =
               @ + (reqs[i].earnings - SalaryDeduction(reqs[i].amount, reqs[i].bal))]
       ELSE totalEarnings
  /\ Proceed(i, OnUpdated(reqs[i]))
  /\ UNCHANGED <<payments, histVars, bonuses, attVars, timeZone, isActive>>

\* The document of the _id the handler holds, as stored now.
StoredEntry(ents, r) == {e \in ents : \E f \in r.found : e.id = f.id}

\* The handler after the read that populates its response, up to its next
\* await: the calculate routes push the record and go on with their loop.
OnPopulated(r, ents, bs) ==
  IF r.op \in {"calculate", "calculateDateRange"} THEN BonusNext(r)
  ELSE IF r.op = "upsertEntry" THEN Answer([r EXCEPT !.out = StoredEntry(ents, r)], Created)
  ELSE IF r.op \in AdjustOps \cup {"updateBonus"}
  THEN Answer([r EXCEPT !.out = BonusById(bs, (CHOOSE f \in r.found : TRUE).id)], Ok)
  ELSE Answer(r, Created)

\* await Model.findById(doc._id).populate(...): the document written is read
\* again for the response.
ReadBack(i) ==
  /\ i \in 1..Len(reqs) /\ reqs[i].pc = "populate"
  /\ Proceed(i, OnPopulated(reqs[i], entries, bonuses))
  /\ UNCHANGED dbVars

\* The handler with the entries of the period it found, up to its next await.
OnEntries(r, ents, tz) ==
  IF r.op = "salary"
  THEN [r EXCEPT !.pc = "pay",
                 !.earnings = PeriodEarnings(ents, r.w, r.arg.periodStart,
                                             r.arg.periodEnd, tz)]
  ELSE IF r.op = "calculateWorker"
  THEN Answer([r EXCEPT !.out = {PeriodSummary(ents, r.w, r.arg.startDate,
                                              r.arg.endDate, tz)}], Ok)
  ELSE LET w == r.recs[r.k].workerId
           worked == DaysWorked(ents, w, PeriodStart(r.arg.period), PeriodEnd(r.arg.period))
           absent == DaysAbsent(ents, w, PeriodStart(r.arg.period), PeriodEnd(r.arg.period))
       IN IF r.op = "calculate"
          THEN [r EXCEPT !.present = worked, !.absent = absent, !.pc = "findBonus"]
          ELSE GatherData(r, worked, absent)

\* await DailyEntry.find({worker, date: {$gte, $lte}}) over a period.
FindEntries(i) ==
  /\ i \in 1..Len(reqs) /\ reqs[i].pc = "find"
  /\ Proceed(i, OnEntries(reqs[i], entries, timeZone))
  /\ UNCHANGED dbVars

\* POST /advances/salary: await payment.save().
SavePayment(i) ==
  /\ i \in 1..Len(reqs) /\ reqs[i].pc = "pay"
  /\ Len(payments) < MaxPay
  /\ payments' = Append(payments,
                        PaymentDoc(reqs[i].w, reqs[i].earnings,
                                   SalaryDeduction(reqs[i].amount, reqs[i].bal)))
  /\ \E now \in Now : Proceed(i, salaryPayment(reqs[i], now))
  /\ UNCHANGED <<ledgerVars, totalEarnings, histVars, bonuses, attVars, timeZone, isActive>>

\* await history.save() and the response 201.
SaveHistory(i) ==
  /\ i \in 1..Len(reqs) /\ reqs[i].pc = "history"
  /\ IF reqs[i].op = "salaryFinalize"
     THEN /\ Len(salaryHistory) < MaxSnap
          /\ salaryHistory' = Append(salaryHistory, SalaryHistoryDoc(reqs[i].processed))
          /\ UNCHANGED <<bonusHistory, nextHistoryId>>
          /\ Proceed(i, Answer(reqs[i], Created))
     ELSE /\ nextHistoryId <= MaxHist
          /\ bonusHistory' = bonusHistory \cup
                               {BonusHistoryDoc(nextHistoryId, reqs[i].processed)}
          /\ nextHistoryId' = nextHistoryId + 1
          /\ UNCHANGED salaryHistory
          /\ Proceed(i, [Answer(reqs[i], Created) EXCEPT !.id = nextHistoryId])
  /\ UNCHANGED <<ledgerVars, payVars, bonuses, attVars, timeZone, isActive>>

\* DELETE /bonus/history/:id: await BonusHistory.findById(id).
FindHistory(i) ==
  /\ i \in 1..Len(reqs) /\ reqs[i].pc = "findHistory"
  /\ Proceed(i, IF \E h \in bonusHistory : h.id = reqs[i].id
                THEN [reqs[i] EXCEPT !.pc = "remove"]
                ELSE Answer(reqs[i], Resp(404, "Bonus history not found")))
  /\ UNCHANGED dbVars

\* A delete that also takes back the newest ledger transaction.
RemoveHistory_reverse(i) ==
  /\ i \in 1..Len(reqs) /\ reqs[i].pc = "remove"
  /\ bonusHistory' = {h \in bonusHistory : h.id # reqs[i].id}
  /\ advances' = IF advances = <<>> THEN advances
                 ELSE SubSeq(advances, 1, Len(advances) - 1)
  /\ Proceed(i, Answer(reqs[i], Ok))
  /\ UNCHANGED <<advanceBalance, totalAdvanceTaken, totalAdvanceRepaid, advanceDates,
                 payVars, salaryHistory, nextHistoryId, bonuses, attVars, timeZone, isActive>>

\* DELETE /bonus/history/:id: await BonusHistory.findByIdAndDelete(id).
RemoveHistory(i) ==
  /\ i \in 1..Len(reqs) /\ reqs[i].pc = "remove"
  /\ bonusHistory' = {h \in bonusHistory : h.id # reqs[i].id}
  /\ Proceed(i, Answer(reqs[i], Ok))
  /\ UNCHANGED <<ledgerVars, payVars, salaryHistory, nextHistoryId, bonuses, attVars,
                 timeZone, isActive>>

\* GET /bonus/history/all: await BonusHistory.find(filter).
ListHistory(i) ==
  /\ i \in 1..Len(reqs) /\ reqs[i].pc = "listHistory"
  /\ Proceed(i, Answer(reqs[i], Ok))
  /\ UNCHANGED dbVars

\* await DailyEntry.findOne / DailyEntry.find over the range of the day.
FindEntry(i) ==
  /\ i \in 1..Len(reqs) /\ reqs[i].pc = "findEntry"
  /\ Proceed(i, [reqs[i] EXCEPT !.pc = "saveEntry",
                                !.found = EntriesOn(entries, Awaited(reqs[i]),
                                                    reqs[i].arg.date)])
  /\ UNCHANGED dbVars

\* The values the route gives the entry of worker w.
EntryDraft(r, w) ==
  IF r.op = "upsertEntry"
  THEN Draft(r.arg.status, r.amount, EntryPay(r.arg.status, r.amount, hourlyRate[w]))
  ELSE IF r.op = "bulkUpsert"
  THEN Draft(r.recs[r.k].status, r.recs[r.k].hoursWorked,
             EntryPay(r.recs[r.k].status, r.recs[r.k].hoursWorked, hourlyRate[w]))
  ELSE Draft("holiday", dailyWorkingHours[w], hourlyRate[w] * dailyWorkingHours[w])

\* The handler after the save of the entry, up to its next await; the bulk
\* route cleans up after the save of a document it found.
EntrySaved(r, created) ==
  IF r.op = "upsertEntry" THEN [r EXCEPT !.pc = "present"]
  ELSE IF r.op = "bulkUpsert"
  THEN IF created THEN BulkPush(r) ELSE [r EXCEPT !.pc = "cleanup"]
  ELSE HolidayNext(r)

\* The save of the entry: a document found is saved, else one is created.  A
\* created document that the index refuses, and a saved one that is stored no
\* more, make the save throw; missing tells whether a save that writes no
\* path throws for a document that is stored no more.
saveEntry(ents, r, w, deleted, missing) ==
  LET d == EntryDraft(r, w)
      date == r.arg.date IN
  IF r.found = {}
  THEN IF DuplicateKey(ents, w, date)
       THEN [ents |-> ents, r |-> Answer(r, Resp(400, "E11000 duplicate key error"))]
       ELSE LET doc == EntryDoc(NewEntryId(w, date, deleted), w, date, d.status,
                                d.hoursWorked, d.totalPay) IN
            [ents |-> ents \cup {doc}, r |-> EntrySaved([r EXCEPT !.found = {doc}], TRUE)]
  ELSE LET f == CHOOSE e \in r.found : TRUE IN
       IF StoredEntry(ents, r) = {}
       THEN IF Modified(f, d) \/ missing
            THEN [ents |-> ents, r |-> Answer(r, Resp(400, "No document found"))]
            ELSE [ents |-> ents, r |-> EntrySaved(r, FALSE)]
       ELSE [ents |-> SaveFound(ents, f, d),
             r |-> EntrySaved([r EXCEPT !.found = {f}], FALSE)]

\* await dailyEntry.save() / DailyEntry.create().
SaveEntry(i) ==
  /\ i \in 1..Len(reqs) /\ reqs[i].pc = "saveEntry"
  /\ \E missing \in BOOLEAN :
     \E s \in {saveEntry(entries, reqs[i], Awaited(reqs[i]), entriesDeleted, missing)} :
       /\ entries' = s.ents
       /\ Proceed(i, s.r)
  /\ UNCHANGED <<ledgerVars, payVars, histVars, bonuses, entriesDeleted, totalDaysWorked,
                 totalDaysAbsent, holidays, holidaysDeleted, timeZone, isActive>>

\* POST /entries/bulk: await DailyEntry.deleteMany of the other documents of
\* the worker and the day.
Cleanup(i) ==
  /\ i \in 1..Len(reqs) /\ reqs[i].pc = "cleanup"
  /\ \E others \in {{e \in EntriesOn(entries, Awaited(reqs[i]), reqs[i].arg.date) :
                       \A f \in reqs[i].found : e.id # f.id}} :
       /\ entries' = entries \ others
       /\ entriesDeleted' = entriesDeleted + Cardinality(others)
  /\ Proceed(i, BulkPush(reqs[i]))
  /\ UNCHANGED <<ledgerVars, payVars, histVars, bonuses, totalDaysWorked, totalDaysAbsent,
                 holidays, holidaysDeleted, timeZone, isActive>>

\* The worker whose counts the handler reads and writes.
StatsWorker(r) ==
  IF r.op = "bulkUpsert" THEN r.processed[r.j].worker
  ELSE IF r.op = "deleteEntry" THEN (CHOOSE e \in r.found : TRUE).worker
  ELSE r.w

\* await DailyEntry.countDocuments({worker, status: {$in: ['present', 'holiday']}})
CountPresent(i) ==
  /\ i \in 1..Len(reqs) /\ reqs[i].pc = "present"
  /\ Proceed(i, [reqs[i] EXCEPT !.pc = "absent",
                   !.present = CountStatus(entries, StatsWorker(reqs[i]),
                                           {"present", "holiday"})])
  /\ UNCHANGED dbVars

\* await DailyEntry.countDocuments({worker, status: 'absent'})
CountAbsent(i) ==
  /\ i \in 1..Len(reqs) /\ reqs[i].pc = "absent"
  /\ Proceed(i, [reqs[i] EXCEPT !.pc = "stats",
                   !.absent = CountStatus(entries, StatsWorker(reqs[i]), {"absent"})])
  /\ UNCHANGED dbVars

\* The handler after the update of the counts, up to its next await.
OnStats(r) ==
  IF r.op = "upsertEntry" THEN [r EXCEPT !.pc = "populate"]
  ELSE IF r.op = "bulkUpsert" /\ r.j + 1 <= Len(r.processed)
  THEN [r EXCEPT !.j = @ + 1, !.pc = "present"]
  ELSE Answer(r, Ok)

\* await Worker.findByIdAndUpdate(w, {totalDaysWorked, totalDaysAbsent}): the
\* two counts read are written to the worker.
UpdateStats(i) ==
  /\ i \in 1..Len(reqs) /\ reqs[i].pc = "stats"
  /\ totalDaysWorked' = [totalDaysWorked EXCEPT ![StatsWorker(reqs[i])] = reqs[i].present]
  /\ totalDaysAbsent' = [totalDaysAbsent EXCEPT ![StatsWorker(reqs[i])] = reqs[i].absent]
  /\ Proceed(i, OnStats(reqs[i]))
  /\ UNCHANGED <<ledgerVars, payVars, histVars, bonuses, entries, entriesDeleted, holidays, holidaysDeleted,
                 timeZone, isActive>>

\* POST /entries/mark-holiday: await Holiday.findOne over the range of the day.
FindHoliday(i) ==
  /\ i \in 1..Len(reqs) /\ reqs[i].pc = "findHoliday"
  /\ Proceed(i, [reqs[i] EXCEPT !.pc = "saveHoliday",
                   !.found = {[date |-> d, id |-> HolidayId(d, holidaysDeleted)] :
                                d \in holidays \cap {reqs[i].arg.date}}])
  /\ UNCHANGED dbVars

\* The Holiday document of an id, when it is stored.
StoredHoliday(days, deleted, id) == {d \in days : HolidayId(d, deleted) = id}

\* await holiday.save() of the holiday found, else Holiday.create(), which
\* throws when the day got a holiday meanwhile (the date is unique).  The
\* save of a document that is stored no more writes nothing; it throws when
\* it has a path to write or when the library looks the document up, and the
\* names of the holidays are not held, so it may throw or pass.
SaveHoliday(i) ==
  /\ i \in 1..Len(reqs) /\ reqs[i].pc = "saveHoliday"
  /\ IF reqs[i].found = {}
     THEN IF reqs[i].arg.date \in holidays
          THEN /\ Proceed(i, Answer(reqs[i], Resp(400, "E11000 duplicate key error")))
               /\ UNCHANGED holidays
          ELSE /\ holidays' = holidays \cup {reqs[i].arg.date}
               /\ Proceed(i, [reqs[i] EXCEPT !.pc = "workers"])
     ELSE /\ UNCHANGED holidays
          /\ \E f \in reqs[i].found :
               \/ Proceed(i, [reqs[i] EXCEPT !.pc = "workers"])
               \/ /\ StoredHoliday(holidays, holidaysDeleted, f.id) = {}
                  /\ Proceed(i, Answer(reqs[i], Resp(400, "No document found")))
  /\ UNCHANGED <<ledgerVars, payVars, histVars, bonuses, entries, entriesDeleted,
                 totalDaysWorked, totalDaysAbsent, holidaysDeleted, timeZone, isActive>>

\* POST /holidays: await Holiday.findOneAndUpdate({date: dayStart}, {date:
\* dayStart, name, description}, {upsert: true, new: true}).
UpsertHoliday(i) ==
  /\ i \in 1..Len(reqs) /\ reqs[i].pc = "upsertHoliday"
  /\ \E day \in {HolidayDay(reqs[i].arg.date, timeZone)} :
       /\ holidays' = holidays \cup {day}
       /\ Proceed(i, Answer([reqs[i] EXCEPT
                              !.out = {[date |-> day, id |-> HolidayId(day, holidaysDeleted)]}],
                            Created))
  /\ UNCHANGED <<ledgerVars, payVars, histVars, bonuses, entries, entriesDeleted,
                 totalDaysWorked, totalDaysAbsent, holidaysDeleted, timeZone, isActive>>

\* DELETE /holidays/:id: await Holiday.findByIdAndDelete(id).
RemoveHoliday(i) ==
  /\ i \in 1..Len(reqs) /\ reqs[i].pc = "removeHoliday"
  /\ \E gone \in {StoredHoliday(holidays, holidaysDeleted, reqs[i].arg.holiday)} :
       IF gone = {}
       THEN /\ Proceed(i, Answer(reqs[i], Resp(404, "Holiday not found")))
            /\ UNCHANGED <<holidays, holidaysDeleted>>
       ELSE /\ holidays' = holidays \ gone
            /\ holidaysDeleted' = [d \in HolidayDays |->
                                     IF d \in gone THEN holidaysDeleted[d] + 1
                                     ELSE holidaysDeleted[d]]
            /\ Proceed(i, Answer(reqs[i], Ok))
  /\ UNCHANGED <<ledgerVars, payVars, histVars, bonuses, entries, entriesDeleted,
                 totalDaysWorked, totalDaysAbsent, timeZone, isActive>>

\* The handler with the active workers it found, up to its next await.  With
\* no active worker the loops have no turn: mark-holiday answers, a calculate
\* route reads the stored records when persisting and else answers.
OnWorkers(r, list) ==
  LET s == [r EXCEPT !.recs = [k \in 1..Len(list) |-> [workerId |-> list[k]]], !.k = 1] IN
  IF list # <<>>
  THEN [s EXCEPT !.pc = IF r.op = "markHoliday" THEN "findEntry" ELSE "find"]
  ELSE IF r.op = "markHoliday" THEN Answer(s, Ok)
  ELSE BonusNext([s EXCEPT !.k = 0])

\* await Worker.find({isActive: true})
FindWorkers(i) ==
  /\ i \in 1..Len(reqs) /\ reqs[i].pc = "workers"
  /\ Proceed(i, OnWorkers(reqs[i], ActiveWorkers(isActive)))
  /\ UNCHANGED dbVars

\* await Worker.findByIdAndUpdate(id, {isActive})
SetActive(i) ==
  /\ i \in 1..Len(reqs) /\ reqs[i].pc = "setActive"
  /\ IF reqs[i].w \in Workers
     THEN /\ isActive' = [isActive EXCEPT ![reqs[i].w] = reqs[i].arg.isActive]
          /\ Proceed(i, Answer(reqs[i], Ok))
     ELSE /\ Proceed(i, Answer(reqs[i], Resp(404, "Worker not found")))
          /\ UNCHANGED isActive
  /\ UNCHANGED <<ledgerVars, payVars, histVars, bonuses, attVars, timeZone>>

\* DELETE /entries/:id: await DailyEntry.findByIdAndDelete(id).
RemoveEntry(i) ==
  /\ i \in 1..Len(reqs) /\ reqs[i].pc = "removeEntry"
  /\ \E gone \in {{e \in entries : e.id = reqs[i].arg.entry}} :
       IF gone = {}
       THEN /\ Proceed(i, Answer(reqs[i], Resp(404, "Entry not found")))
            /\ UNCHANGED <<entries, entriesDeleted>>
       ELSE /\ entriesDeleted < MaxDel
            /\ entries' = entries \ gone
            /\ entriesDeleted' = entriesDeleted + 1
            /\ Proceed(i, [reqs[i] EXCEPT !.pc = "present", !.found = gone])
  /\ UNCHANGED <<ledgerVars, payVars, histVars, bonuses, totalDaysWorked, totalDaysAbsent,
                 holidays, holidaysDeleted, timeZone, isActive>>

\* GET /reports/all-workers-summary: await DailyEntry.find over the range.
FindAllEntries(i) ==
  /\ i \in 1..Len(reqs) /\ reqs[i].pc = "findAll"
  /\ Proceed(i, Answer([reqs[i] EXCEPT
                          !.out = allWorkersSummary(entries, reqs[i].arg.startDate,
                                                    reqs[i].arg.endDate)], Ok))
  /\ UNCHANGED dbVars

\* The record an adjusting route looks up: the first record of the worker
\* when the id is "undefined", else the record of the id.
LookedUp(r, bs) ==
  IF r.op \in AdjustOps /\ r.arg.bonusId = Undefined THEN BonusOfYear(bs, r.w)
  ELSE BonusById(bs, r.arg.bonusId)

\* The handler with the Bonus record it looked up, up to its next await.
OnBonus(r, bs) ==
  IF r.op = "calculate" THEN calculateYear(r, ExistingBonus(bs, Awaited(r), YearPeriod))
  ELSE IF r.op = "calculateDateRange"
  THEN calculateDateRange(r, ExistingBonus(bs, Awaited(r), r.arg.period))
  ELSE IF LookedUp(r, bs) = {}
  THEN IF r.op \in AdjustOps /\ r.arg.bonusId = Undefined
       THEN [r EXCEPT !.pc = "createBonus"]
       ELSE Answer(r, Resp(404, "Bonus not found"))
  ELSE IF r.op = "addEmployeeDeposit"
          /\ DepositExceeds(CHOOSE b \in LookedUp(r, bs) : TRUE, r.amount)
  THEN Answer(r, Resp(400, "Deposit amount cannot exceed final bonus"))
  ELSE [r EXCEPT !.pc = "updateBonus", !.found = LookedUp(r, bs)]

\* await Bonus.findOne(...) / Bonus.findById(id).
FindBonus(i) ==
  /\ i \in 1..Len(reqs) /\ reqs[i].pc = "findBonus"
  /\ Proceed(i, OnBonus(reqs[i], bonuses))
  /\ UNCHANGED dbVars

\* The handler when the upsert throws: POST /bonus/calculate answers 400 with
\* the message of the error, POST /bonus/calculate-date-range 500.
UpsertFailed(r) ==
  IF r.op = "calculate" THEN Answer(r, Resp(400, "would modify the immutable field '_id'"))
  ELSE Answer(r, Resp(500, "Internal server error"))

\* await Bonus.findOneAndUpdate({year, worker}, bonusPayload, {upsert: true})
Upsert(i) ==
  /\ i \in 1..Len(reqs) /\ reqs[i].pc = "upsert"
  /\ \E p \in reqs[i].found :
       IF UpsertThrows(bonuses, p)
       THEN /\ Proceed(i, UpsertFailed(reqs[i]))
            /\ UNCHANGED bonuses
       ELSE /\ bonuses' = UpsertBonus(bonuses, p, PayloadPeriod(reqs[i]))
            /\ Proceed(i, [reqs[i] EXCEPT !.pc = "populate"])
  /\ UNCHANGED <<ledgerVars, payVars, histVars, attVars, timeZone, isActive>>

\* The stored record b after the update of the route, f the record read.
Adjusted(r, b, f) ==
  IF r.op = "markPaid" THEN markPaid(b, f, r.arg.supplied, r.amount)
  ELSE IF r.op = "updateBonus" THEN updateBonus(b, f, r.arg.hasFinal, r.amount)
  ELSE IF r.op = "addExtraBonus" THEN addExtraBonus(b, f, r.amount)
  ELSE addEmployeeDeposit(b, f, r.amount)

\* await Bonus.findByIdAndUpdate(id, {...}) / bonus.save() of the record
\* read; the updates answer with the updated record, PUT /bonus/:id reads it
\* again.
UpdateBonusDoc(i) ==
  /\ i \in 1..Len(reqs) /\ reqs[i].pc = "updateBonus"
  /\ \E f \in reqs[i].found :
     \E bs \in {{IF b.id = f.id THEN Adjusted(reqs[i], b, f) ELSE b : b \in bonuses}} :
       /\ bonuses' = bs
       /\ Proceed(i, IF reqs[i].op = "updateBonus" THEN [reqs[i] EXCEPT !.pc = "populate"]
                     ELSE Answer([reqs[i] EXCEPT !.out = BonusById(bs, f.id)], Ok))
  /\ UNCHANGED <<ledgerVars, payVars, histVars, attVars, timeZone, isActive>>

\* The record the route makes on the fly for a worker without one.
NewBonus(r, id) ==
  IF r.op = "addExtraBonus" THEN ExtraCreated(id, r.w, r.arg.period, r.amount)
  ELSE DepositCreated(id, r.w, r.arg.period, r.amount)

\* await Bonus.create({...}): the index {year, worker} lets a second record
\* of the worker in.
CreateBonus(i) ==
  /\ i \in 1..Len(reqs) /\ reqs[i].pc = "createBonus"
  /\ \E doc \in {NewBonus(reqs[i], NewBonusId(bonuses))} :
       /\ bonuses' = bonuses \cup {doc}
       /\ Proceed(i, [reqs[i] EXCEPT !.pc = "populate", !.found = {doc}])
  /\ UNCHANGED <<ledgerVars, payVars, histVars, attVars, timeZone, isActive>>

\* await Bonus.find({year}): the stored records are the response.
FindBonuses(i) ==
  /\ i \in 1..Len(reqs) /\ reqs[i].pc = "bonuses"
  /\ Proceed(i, Answer([reqs[i] EXCEPT !.out = bonuses], Ok))
  /\ UNCHANGED dbVars
\* ------------------------------------------------------------ specification
Init ==
  /\ advanceBalance = [w \in Workers |-> 0]
  /\ totalAdvanceTaken = [w \in Workers |-> 0]
  /\ totalAdvanceRepaid = [w \in Workers |-> 0]
  /\ totalEarnings = [w \in Workers |-> 0]
  /\ advances = <<>>
  /\ advanceDates = <<>>
  /\ payments = <<>>
  /\ salaryHistory = <<>>
  /\ bonusHistory = {}
  /\ nextHistoryId = 1
  /\ bonuses = {}
  /\ entries = {}
  /\ entriesDeleted = 0
  /\ totalDaysWorked = [w \in Workers |-> 0]
  /\ totalDaysAbsent = [w \in Workers |-> 0]
  /\ holidays = {}
  /\ holidaysDeleted = [d \in HolidayDays |-> 0]
  /\ timeZone \in TimeZones
  /\ isActive = [w \in Workers |-> TRUE]
  /\ clock = 0
  /\ reqs = <<>>
  /\ last = Reply(NoRequest, 0)

\* Drafts list workers in the order of the worker list, each at most once;
\* one record may name a missing worker.  A record deposits nothing or all of
\* an advance given.
DraftOrder == <<"w1", NoWorker, "w2">>
Pos(w) == CHOOSE i \in 1..Len(DraftOrder) : DraftOrder[i] = w
InOrder(recs) ==
  \A i, j \in 1..Len(recs) : i < j => Pos(recs[i].workerId) < Pos(recs[j].workerId)
DraftDeposits == {0, MaxAmt}

SalaryDrafts(n) ==
  {d \in SeqsUpTo(SalaryRecs(Workers, DraftDeposits, 0 .. 1, {0}, {0})
                    \cup SalaryRecs({NoWorker}, {MaxAmt}, {0}, {0}, {0}), n) :
     InOrder(d)}
SalaryDraftsN == SalaryDrafts(MaxRecs)

\* No request is in flight.  In every specification requests arrive one after
\* another with all the inputs of the specification, and a few of them arrive
\* also while another request is in flight.  Every specification bounds the
\* transactions its run writes to the ledger and the notes its adjustments
\* write to a bonus record.
Idle == reqs = <<>>
Beside(ops) == reqs # <<>> /\ \A i \in 1 .. Len(reqs) : reqs[i].op \in ops
NotesWithin(bs, n) == \A b \in bs : Len(b.notes) <= n

\* The server runs in any time zone in ReportSpec and in the time zones that
\* differ from UTC in FrameSpec, whose routes compare the stored entries with
\* the bounds of a period, and in UTC in the others, whose routes read no
\* date of an entry against a UTC time.
InitUtc == Init /\ timeZone = "UTC"
InitLocal == Init /\ timeZone # "UTC"

\* Spec: the ledger routes of routes/advances.js for one worker and a
\* missing one, with negative, zero and positive amounts; a give and a deposit
\* of 1 arrive also while a request is in flight.
SpecAmounts == {0 - 1, 0, 1}
Next ==
  \/ \E w \in {"w1", NoWorker}, a \in SpecAmounts :
       (Idle \/ (w = "w1" /\ a = 1)) /\ Give(w, a)
  \/ \E a \in SpecAmounts : Idle /\ Repay("w1", a)
  \/ \E a \in SpecAmounts : (Idle \/ a = 1) /\ Deposit("w1", a)
  \/ \E i \in 1 .. MaxReqs : ReadWorker(i)
  \/ \E i \in 1 .. MaxReqs : SaveAdvance(i) /\ Len(advances') <= MaxTx
  \/ \E i \in 1 .. MaxReqs : UpdateWorker(i)
  \/ \E i \in 1 .. MaxReqs : ReadBack(i)

Spec == InitUtc /\ [][Next]_vars

\* SalaryHistorySpec: advances of MaxAmt are given and salary drafts of up to
\* MaxRecs workers are finalized; a give to w1 arrives also while a request is
\* in flight.
SalaryHistoryNext ==
  \/ \E w \in Workers : (Idle \/ w = "w1") /\ Give(w, MaxAmt)
  \/ \E ok \in BOOLEAN, recs \in SalaryDraftsN :
       Idle /\ (ok \/ recs = <<>>) /\ SalaryFinalize(ok, recs)
  \/ \E i \in 1 .. MaxReqs : ReadWorker(i)
  \/ \E i \in 1 .. MaxReqs : RereadWorker(i)
  \/ \E i \in 1 .. MaxReqs : SaveAdvance(i) /\ Len(advances') <= MaxTx
  \/ \E i \in 1 .. MaxReqs : UpdateWorker(i)
  \/ \E i \in 1 .. MaxReqs : ReadBack(i)
  \/ \E i \in 1 .. MaxReqs : SaveHistory(i)

SalaryHistorySpec == InitUtc /\ [][SalaryHistoryNext]_vars

\* BonusHistorySpec: advances of MaxAmt are given to w1, bonus drafts of up to
\* MaxRecs workers are finalized, w1 depositing nothing or MaxAmt and w2
\* MaxAmt, and snapshots are deleted; the give arrives also while a request
\* is in flight.
BonusHistoryDrafts ==
  {d \in SeqsUpTo(BonusRecs({"w1"}, DraftDeposits, {0}, {0}, {0})
                    \cup BonusRecs({"w2"}, {MaxAmt}, {0}, {0}, {0}), MaxRecs) : InOrder(d)}
BonusHistoryNext ==
  \/ Give("w1", MaxAmt)
  \/ \E ok \in BOOLEAN, recs \in BonusHistoryDrafts :
       Idle /\ (ok \/ recs = <<>>) /\ BonusFinalize(ok, recs)
  \/ \E id \in 1 .. MaxHist : Idle /\ DeleteBonusHistory(id)
  \/ \E i \in 1 .. MaxReqs : ReadWorker(i)
  \/ \E i \in 1 .. MaxReqs : SaveAdvance(i) /\ Len(advances') <= MaxTx
  \/ \E i \in 1 .. MaxReqs : UpdateWorker(i)
  \/ \E i \in 1 .. MaxReqs : ReadBack(i)
  \/ \E i \in 1 .. MaxReqs : SaveHistory(i)
  \/ \E i \in 1 .. MaxReqs : FindHistory(i)
  \/ \E i \in 1 .. MaxReqs : RemoveHistory(i)

BonusHistorySpec == InitUtc /\ [][BonusHistoryNext]_vars

\* FrameSpec: every route of the advances, bonus, entries and reports
\* routers, each with one worker's smallest inputs, the server
\* in a time zone east or west of Greenwich; a salary payment arrives also
\* while a give is in flight.
FrameDrafts == {<<r>> : r \in SalaryRecs({"w1"}, {1}, {1}, {0}, {0})}
FrameBonusDrafts == {<<r>> : r \in BonusRecs({"w1"}, {1}, {0}, {0}, {0})}

FrameNext ==
  \/ Idle /\ Give("w1", 1)
  \/ Idle /\ Repay("w1", 1)
  \/ Idle /\ Deposit("w1", 1)
  \/ \E a \in {0, 1} : (Idle \/ (Beside({"give"}) /\ a = 1)) /\ SalaryPay("w1", a, 1, MaxDay)
  \/ \E recs \in FrameDrafts : Idle /\ SalaryFinalize(TRUE, recs)
  \/ \E recs \in FrameBonusDrafts : Idle /\ BonusFinalize(TRUE, recs)
  \/ \E id \in 1 .. MaxHist : Idle /\ DeleteBonusHistory(id)
  \/ Idle /\ ReadBonusHistory
  \/ Idle /\ UpsertEntry("w1", MaxDay, "present", 1)
  \/ Idle /\ CalculateYear(FALSE, 1)
  \/ Idle /\ CalculateDateRange(TRUE, 1, Months, TRUE, 1)
  \/ Idle /\ MarkPaid(1, FALSE, 0)
  \/ Idle /\ UpdateBonus(1, FALSE, 0)
  \/ Idle /\ AddExtraBonus(1, "w1", YearPeriod, 1)
  \/ Idle /\ AddEmployeeDeposit(1, "w1", YearPeriod, 1)
  \/ \E i \in 1 .. MaxReqs : ReadWorker(i)
  \/ \E i \in 1 .. MaxReqs : RereadWorker(i)
  \/ \E i \in 1 .. MaxReqs : SaveAdvance(i) /\ Len(advances') <= MaxTx
  \/ \E i \in 1 .. MaxReqs : UpdateWorker(i)
  \/ \E i \in 1 .. MaxReqs : ReadBack(i)
  \/ \E i \in 1 .. MaxReqs : FindEntries(i)
  \/ \E i \in 1 .. MaxReqs : SavePayment(i)
  \/ \E i \in 1 .. MaxReqs : SaveHistory(i)
  \/ \E i \in 1 .. MaxReqs : FindHistory(i)
  \/ \E i \in 1 .. MaxReqs : RemoveHistory(i)
  \/ \E i \in 1 .. MaxReqs : ListHistory(i)
  \/ \E i \in 1 .. MaxReqs : FindEntry(i)
  \/ \E i \in 1 .. MaxReqs : SaveEntry(i)
  \/ \E i \in 1 .. MaxReqs : CountPresent(i)
  \/ \E i \in 1 .. MaxReqs : CountAbsent(i)
  \/ \E i \in 1 .. MaxReqs : UpdateStats(i)
  \/ \E i \in 1 .. MaxReqs : FindWorkers(i)
  \/ \E i \in 1 .. MaxReqs : FindBonus(i)
  \/ \E i \in 1 .. MaxReqs : Upsert(i)
  \/ \E i \in 1 .. MaxReqs : UpdateBonusDoc(i) /\ NotesWithin(bonuses', MaxNotes)
  \/ \E i \in 1 .. MaxReqs : FindBonuses(i)

FrameSpec == InitLocal /\ [][FrameNext]_vars

\* ConcSpec: an advance of MaxAmt is given to a worker on the empty ledger,
\* and then gives, repayments and deposits of every positive amount arrive
\* for w1, up to MaxReqs of them in flight together.
ConcNext ==
  \/ \E w \in Workers : Idle /\ advances = <<>> /\ Give(w, MaxAmt)
  \/ \E a \in 1 .. MaxAmt : advances # <<>> /\ Give("w1", a)
  \/ \E a \in 1 .. MaxAmt : advances # <<>> /\ Repay("w1", a)
  \/ \E a \in 1 .. MaxAmt : advances # <<>> /\ Deposit("w1", a)
  \/ \E i \in 1 .. MaxReqs : ReadWorker(i)
  \/ \E i \in 1 .. MaxReqs : SaveAdvance(i) /\ Len(advances') <= MaxFund + MaxReqs
  \/ \E i \in 1 .. MaxReqs : UpdateWorker(i)
  \/ \E i \in 1 .. MaxReqs : ReadBack(i)

ConcSpec == InitUtc /\ [][ConcNext]_vars

\* BonusCalcSpec: w1 is marked absent on any day and w2 on the last one, bonus
\* drafts are computed by both routes with a small and a large deduction per
\* absent day, for the year and for its last day of attendance, and w1's
\* stored record is adjusted; the extra bonus arrives also while a calculate
\* call of the year is in flight.
Deductions == {1, BonusDays * BonusHours}
DatePeriods == {YearPeriod, <<MaxDay, MaxDay>>}

BonusCalcNext ==
  \/ \E d \in 1 .. MaxDay : Idle /\ UpsertEntry("w1", d, "absent", 0)
  \/ Idle /\ UpsertEntry("w2", MaxDay, "absent", 0)
  \/ \E persist \in BOOLEAN, dd \in Deductions : Idle /\ CalculateYear(persist, dd)
  \/ \E p \in DatePeriods, persist \in BOOLEAN, dd \in Deductions :
       Idle /\ (p = YearPeriod \/ ~persist) /\ CalculateDateRange(TRUE, p[1], p[2], persist, dd)
  \/ (Idle \/ Beside({"calculate"})) /\ AddExtraBonus(1, "w1", YearPeriod, 1)
  \/ Idle /\ AddEmployeeDeposit(1, "w1", YearPeriod, 1)
  \/ \E i \in 1 .. MaxReqs : ReadWorker(i)
  \/ \E i \in 1 .. MaxReqs : ReadBack(i)
  \/ \E i \in 1 .. MaxReqs : FindEntries(i)
  \/ \E i \in 1 .. MaxReqs : FindEntry(i)
  \/ \E i \in 1 .. MaxReqs : SaveEntry(i)
  \/ \E i \in 1 .. MaxReqs : CountPresent(i)
  \/ \E i \in 1 .. MaxReqs : CountAbsent(i)
  \/ \E i \in 1 .. MaxReqs : UpdateStats(i)
  \/ \E i \in 1 .. MaxReqs : FindWorkers(i)
  \/ \E i \in 1 .. MaxReqs : FindBonus(i)
  \/ \E i \in 1 .. MaxReqs : Upsert(i)
  \/ \E i \in 1 .. MaxReqs : UpdateBonusDoc(i) /\ NotesWithin(bonuses', MaxNotes)
  \/ \E i \in 1 .. MaxReqs : FindBonuses(i)

BonusCalcSpec == InitUtc /\ [][BonusCalcNext]_vars

\* BonusAdjustSpec: without attendance, bonus drafts are computed and stored,
\* the first record is adjusted by its id or w1's by the worker (id
\* "undefined"), set to a final amount of 0 and marked paid; the extra bonus
\* by the worker arrives also while a request is in flight.
BonusAdjustNext ==
  \/ \E persist \in BOOLEAN : Idle /\ CalculateYear(persist, 1)
  \/ \E p \in DatePeriods, persist \in BOOLEAN :
       Idle /\ CalculateDateRange(TRUE, p[1], p[2], persist, 1)
  \/ \E id \in {1, Undefined} :
       (Idle \/ id = Undefined) /\ AddExtraBonus(id, "w1", YearPeriod, 1)
  \/ \E id \in {1, Undefined} : Idle /\ AddEmployeeDeposit(id, "w1", YearPeriod, 1)
  \/ \E supplied \in BOOLEAN, a \in {0, 1} : Idle /\ MarkPaid(1, supplied, a)
  \/ Idle /\ UpdateBonus(1, TRUE, 0)
  \/ \E i \in 1 .. MaxReqs : ReadWorker(i)
  \/ \E i \in 1 .. MaxReqs : ReadBack(i)
  \/ \E i \in 1 .. MaxReqs : FindEntries(i)
  \/ \E i \in 1 .. MaxReqs : FindWorkers(i)
  \/ \E i \in 1 .. MaxReqs : FindBonus(i)
  \/ \E i \in 1 .. MaxReqs : Upsert(i)
  \/ \E i \in 1 .. MaxReqs : UpdateBonusDoc(i) /\ NotesWithin(bonuses', MaxNotes)
  \/ \E i \in 1 .. MaxReqs : CreateBonus(i)
  \/ \E i \in 1 .. MaxReqs : FindBonuses(i)

BonusAdjustSpec == InitUtc /\ [][BonusAdjustNext]_vars

\* DepositSpec: the drafts of the year are computed and stored, w1 gets an
\* extra bonus and deposits by the worker (id "undefined"), the stored
\* records get deposits of every amount by their ids, and the first record is
\* set to a final amount of 0; up to MaxReqs deposits by the worker are in
\* flight together, so that w1 may get two records.
BonusIds == 1 .. MaxReqs + 1
DepositNext ==
  \/ Idle /\ CalculateYear(TRUE, 1)
  \/ Idle /\ AddExtraBonus(Undefined, "w1", YearPeriod, 1)
  \/ (Idle \/ Beside({"addEmployeeDeposit"}))
       /\ AddEmployeeDeposit(Undefined, "w1", YearPeriod, 1)
  \/ \E id \in BonusIds, a \in 1 .. MaxAmt :
       Idle /\ AddEmployeeDeposit(id, "w1", YearPeriod, a)
  \/ Idle /\ UpdateBonus(1, TRUE, 0)
  \/ \E i \in 1 .. MaxReqs : ReadWorker(i)
  \/ \E i \in 1 .. MaxReqs : ReadBack(i)
  \/ \E i \in 1 .. MaxReqs : FindEntries(i)
  \/ \E i \in 1 .. MaxReqs : FindWorkers(i)
  \/ \E i \in 1 .. MaxReqs : FindBonus(i)
  \/ \E i \in 1 .. MaxReqs : Upsert(i)
  \/ \E i \in 1 .. MaxReqs : UpdateBonusDoc(i) /\ NotesWithin(bonuses', MaxAdj)
  \/ \E i \in 1 .. MaxReqs : CreateBonus(i)
  \/ \E i \in 1 .. MaxReqs : FindBonuses(i)

DepositSpec == InitUtc /\ [][DepositNext]_vars

\* CohortSpec: w1 is marked absent on any day and w2 on the last one, w1 is
\* deactivated and activated again and w2 or a missing worker deactivated,
\* w1 gets an extra bonus by the worker (id "undefined"), and bonus drafts
\* are computed by both routes, for the year and for its last day of
\* attendance; date ranges that the route refuses are sent too.
BadPeriods == {<<0, Months>>, <<1, Months + 1>>, <<Months, 1>>}
CohortNext ==
  \/ \E d \in 1 .. MaxDay : Idle /\ UpsertEntry("w1", d, "absent", 0)
  \/ Idle /\ UpsertEntry("w2", MaxDay, "absent", 0)
  \/ \E active \in BOOLEAN : Idle /\ PutWorker("w1", active)
  \/ \E w \in {"w2", NoWorker} : Idle /\ DeleteWorker(w)
  \/ Idle /\ AddExtraBonus(Undefined, "w1", YearPeriod, 1)
  \/ \E persist \in BOOLEAN : Idle /\ CalculateYear(persist, MaxAmt)
  \/ \E p \in DatePeriods, persist \in BOOLEAN :
       Idle /\ (p = YearPeriod \/ ~persist)
         /\ CalculateDateRange(TRUE, p[1], p[2], persist, MaxAmt)
  \/ \E parses \in BOOLEAN, p \in BadPeriods :
       Idle /\ (parses \/ p[1] = 0) /\ CalculateDateRange(parses, p[1], p[2], FALSE, MaxAmt)
  \/ \E i \in 1 .. MaxReqs : ReadWorker(i)
  \/ \E i \in 1 .. MaxReqs : ReadBack(i)
  \/ \E i \in 1 .. MaxReqs : FindEntries(i)
  \/ \E i \in 1 .. MaxReqs : FindEntry(i)
  \/ \E i \in 1 .. MaxReqs : SaveEntry(i)
  \/ \E i \in 1 .. MaxReqs : CountPresent(i)
  \/ \E i \in 1 .. MaxReqs : CountAbsent(i)
  \/ \E i \in 1 .. MaxReqs : UpdateStats(i)
  \/ \E i \in 1 .. MaxReqs : FindWorkers(i)
  \/ \E i \in 1 .. MaxReqs : SetActive(i)
  \/ \E i \in 1 .. MaxReqs : FindBonus(i)
  \/ \E i \in 1 .. MaxReqs : Upsert(i)
  \/ \E i \in 1 .. MaxReqs : UpdateBonusDoc(i) /\ NotesWithin(bonuses', MaxNotes)
  \/ \E i \in 1 .. MaxReqs : CreateBonus(i)
  \/ \E i \in 1 .. MaxReqs : FindBonuses(i)

CohortSpec == InitUtc /\ [][CohortNext]_vars

\* AttendanceSpec: single and bulk saves of the first day for w1 and for a
\* missing worker, the last day marked a holiday, and deletes of stored
\* entries and of a missing one;
\* a save of w1's first day and a delete of a stored entry arrive also while
\* a single save is in flight.
BulkLists == SeqsUpTo(BulkRecs({"w1", NoWorker}, {"present"}, {1}), MaxRecs)
AttendanceNext ==
  \/ \E st \in {"present", "half-day", "absent"}, h \in {1, 2} :
       /\ st = "present" \/ h = 1
       /\ Idle \/ (Beside({"upsertEntry"}) /\ st = "present" /\ h = 1)
       /\ UpsertEntry("w1", 1, st, h)
  \/ Idle /\ UpsertEntry(NoWorker, 1, "present", 1)
  \/ \E list \in BulkLists : Idle /\ BulkUpsert(1, list)
  \/ Idle /\ MarkHoliday(MaxDay)
  \/ \E id \in {e.id : e \in entries} \cup {NoEntry} :
       (Idle \/ (Beside({"upsertEntry"}) /\ id # NoEntry)) /\ DeleteEntry(id)
  \/ \E i \in 1 .. MaxReqs : ReadWorker(i)
  \/ \E i \in 1 .. MaxReqs : ReadBack(i)
  \/ \E i \in 1 .. MaxReqs : FindEntry(i)
  \/ \E i \in 1 .. MaxReqs : SaveEntry(i)
  \/ \E i \in 1 .. MaxReqs : Cleanup(i)
  \/ \E i \in 1 .. MaxReqs : CountPresent(i)
  \/ \E i \in 1 .. MaxReqs : CountAbsent(i)
  \/ \E i \in 1 .. MaxReqs : UpdateStats(i)
  \/ \E i \in 1 .. MaxReqs : FindHoliday(i)
  \/ \E i \in 1 .. MaxReqs : SaveHoliday(i)
  \/ \E i \in 1 .. MaxReqs : FindWorkers(i)
  \/ \E i \in 1 .. MaxReqs : RemoveEntry(i)

AttendanceSpec == InitUtc /\ [][AttendanceNext]_vars

\* ReportSpec: single saves of w1's first and last day with every status and
\* 2 hours, the last day marked a holiday, holidays of the last day created
\* and stored holidays deleted, also while the day is being marked, and the
\* two reads over every range of the two days, the server in any time zone;
\* the read of w1 over both days arrives also while a request is in flight.
ReportNext ==
  \/ \E d \in {1, MaxDay}, st \in {"present", "half-day", "absent", "holiday"} :
       Idle /\ UpsertEntry("w1", d, st, 2)
  \/ Idle /\ MarkHoliday(MaxDay)
  \/ (Idle \/ Beside({"markHoliday"})) /\ PostHoliday(MaxDay)
  \/ \E id \in {HolidayId(d, holidaysDeleted) : d \in holidays} \cup {NoHoliday} :
       (Idle \/ (Beside({"markHoliday"}) /\ id # NoHoliday)) /\ DeleteHoliday(id)
  \/ \E sd, ed \in {1, MaxDay} : Idle /\ sd <= ed /\ AllWorkersSummary(sd, ed)
  \/ \E w \in {"w1", NoWorker}, sd, ed \in {1, MaxDay} :
       /\ sd <= ed
       /\ Idle \/ (w = "w1" /\ sd = 1 /\ ed = MaxDay)
       /\ CalculateWorker(w, sd, ed)
  \/ \E i \in 1 .. MaxReqs : ReadWorker(i)
  \/ \E i \in 1 .. MaxReqs : ReadBack(i)
  \/ \E i \in 1 .. MaxReqs : FindEntries(i)
  \/ \E i \in 1 .. MaxReqs : FindEntry(i)
  \/ \E i \in 1 .. MaxReqs : SaveEntry(i)
  \/ \E i \in 1 .. MaxReqs : CountPresent(i)
  \/ \E i \in 1 .. MaxReqs : CountAbsent(i)
  \/ \E i \in 1 .. MaxReqs : UpdateStats(i)
  \/ \E i \in 1 .. MaxReqs : FindHoliday(i)
  \/ \E i \in 1 .. MaxReqs : SaveHoliday(i)
  \/ \E i \in 1 .. MaxReqs : UpsertHoliday(i)
  \/ \E i \in 1 .. MaxReqs :
       RemoveHoliday(i) /\ \A d \in HolidayDays : holidaysDeleted'[d] <= MaxDel
  \/ \E i \in 1 .. MaxReqs : FindWorkers(i)
  \/ \E i \in 1 .. MaxReqs : FindAllEntries(i)

ReportSpec == Init /\ [][ReportNext]_vars

\* PostingSpec: advances of 1 are given to either worker while the ledger
\* holds up to MaxFund transactions, and drafts of up to MaxRecs workers, each
\* depositing 0 or 1 and taking a new advance of 0 or 1, are finalized while
\* it holds up to MaxFund + 1; a give to w1 arrives also while a finalize is
\* in flight.
PostingDrafts ==
  {d \in SeqsUpTo(SalaryRecs(Workers, {0, 1}, {0, 1}, {0}, {0}), MaxRecs) : InOrder(d)}
PostingNext ==
  \/ \E w \in Workers :
       /\ Len(advances) <= MaxFund
       /\ Idle \/ (Beside({"salaryFinalize"}) /\ w = "w1")
       /\ Give(w, 1)
  \/ \E recs \in PostingDrafts :
       Idle /\ Len(advances) <= MaxFund + 1 /\ SalaryFinalize(TRUE, recs)
  \/ \E i \in 1 .. MaxReqs : ReadWorker(i)
  \/ \E i \in 1 .. MaxReqs : RereadWorker(i)
  \/ \E i \in 1 .. MaxReqs : SaveAdvance(i) /\ Len(advances') <= MaxTx + 2 * MaxRecs
  \/ \E i \in 1 .. MaxReqs : UpdateWorker(i)
  \/ \E i \in 1 .. MaxReqs : ReadBack(i)
  \/ \E i \in 1 .. MaxReqs : SaveHistory(i)

PostingSpec == InitUtc /\ [][PostingNext]_vars

\* DatedSpec: the ledger routes called without a date and with a date that
\* lies before every stored transaction; the dated give arrives also while a
\* request is in flight.
EarlierDate == 0
DatedNext ==
  \/ \E w \in Workers, a \in 1 .. MaxAmt : Idle /\ Give(w, a)
  \/ \E w \in Workers, a \in 1 .. MaxAmt : Idle /\ Repay(w, a)
  \/ \E w \in Workers, a \in 1 .. MaxAmt :
       (Idle \/ (w = "w1" /\ a = 1)) /\ GiveAt(w, a, EarlierDate)
  \/ \E w \in Workers, a \in 1 .. MaxAmt : Idle /\ RepayAt(w, a, EarlierDate)
  \/ \E w \in Workers, a \in 1 .. MaxAmt : Idle /\ DepositAt(w, a, EarlierDate)
  \/ \E i \in 1 .. MaxReqs : ReadWorker(i)
  \/ \E i \in 1 .. MaxReqs : SaveAdvance(i) /\ Len(advances') <= MaxTx
  \/ \E i \in 1 .. MaxReqs : UpdateWorker(i)
  \/ \E i \in 1 .. MaxReqs : ReadBack(i)

DatedSpec == InitUtc /\ [][DatedNext]_vars

\* SettleSpec: an advance is given to w1 and salary and bonus drafts are
\* finalized.  A draft lists up to MaxRecs records in the order of the worker
\* list; its amounts are small enough for a penalty to exceed the base and a
\* deposit the final bonus.  The give arrives also while a salary finalize is
\* in flight.
SettleSalaryRecs ==
  SalaryRecs({"w1"}, {1}, {0, 1}, {2}, {1, 2})
    \cup SalaryRecs({NoWorker}, {0}, {0}, {2}, {2})
SettleBonusRecs ==
  BonusRecs({"w1"}, {1}, {2}, {0, 3}, {0, 1})
    \cup BonusRecs({NoWorker}, {0}, {2}, {0}, {0})
SettleSalaryDrafts == {d \in SeqsUpTo(SettleSalaryRecs, MaxRecs) : InOrder(d)}
SettleBonusDrafts == {d \in SeqsUpTo(SettleBonusRecs, MaxRecs) : InOrder(d)}

SettleNext ==
  \/ (Idle \/ Beside({"salaryFinalize"})) /\ Give("w1", 1)
  \/ \E ok \in BOOLEAN, recs \in SettleSalaryDrafts :
       Idle /\ (ok \/ recs = <<>>) /\ SalaryFinalize(ok, recs)
  \/ \E ok \in BOOLEAN, recs \in SettleBonusDrafts :
       Idle /\ (ok \/ recs = <<>>) /\ BonusFinalize(ok, recs)
  \/ \E i \in 1 .. MaxReqs : ReadWorker(i)
  \/ \E i \in 1 .. MaxReqs : RereadWorker(i)
  \/ \E i \in 1 .. MaxReqs : SaveAdvance(i) /\ Len(advances') <= MaxTx + 1
  \/ \E i \in 1 .. MaxReqs : UpdateWorker(i)
  \/ \E i \in 1 .. MaxReqs : ReadBack(i)
  \/ \E i \in 1 .. MaxReqs : SaveHistory(i)

SettleSpec == InitUtc /\ [][SettleNext]_vars

\* EntryConcSpec: saves of w1's first day, present with 1 or 2 hours or
\* absent, up to MaxReqs of them in flight together.
EntryConcNext ==
  \/ \E st \in {"present", "absent"}, h \in {1, 2} :
       (st = "present" \/ h = 1) /\ UpsertEntry("w1", 1, st, h)
  \/ \E i \in 1 .. MaxReqs : ReadWorker(i)
  \/ \E i \in 1 .. MaxReqs : ReadBack(i)
  \/ \E i \in 1 .. MaxReqs : FindEntry(i)
  \/ \E i \in 1 .. MaxReqs : SaveEntry(i)
  \/ \E i \in 1 .. MaxReqs : CountPresent(i)
  \/ \E i \in 1 .. MaxReqs : CountAbsent(i)
  \/ \E i \in 1 .. MaxReqs : UpdateStats(i)

EntryConcSpec == InitUtc /\ [][EntryConcNext]_vars

\* -------------------------------------------------------------- properties
\* A response stays in last until the next request enters its handler, and
\* the database changes only in the steps of requests.  Served alone: the
\* request answered last was in flight with no other request, so the database
\* is the one its handler left and last.base the one it arrived at.
ServedAlone(ops) == last.op \in ops /\ last.peers = 0
LedgerOf(db) == <<db.bal, db.taken, db.repaid, db.adv, db.dates>>
Untouched == ledgerVars = LedgerOf(last.base)

\* This step answers a request.
Answered == last'.seq # last.seq
\* This step is a step of request i.
Stepped(i) ==
  /\ i \in 1 .. Len(reqs)
  /\ \/ Len(reqs') = Len(reqs) - 1 /\ reqs' = Remove(reqs, i)
     \/ Len(reqs') = Len(reqs) /\ reqs'[i] # reqs[i]
\* This step answers the second of two requests of ops that were in flight
\* together; last holds the response of the first.
PairAnswered(ops) ==
  /\ Answered /\ reqs' = <<>>
  /\ last.op \in ops /\ last'.op \in ops
  /\ last.peers = 1 /\ last'.peers = 1
  /\ last.before + last'.before = 1

\* ------------------------------------------------------- ledger properties
SignedAmount(tx) == IF tx.type = "advance" THEN tx.amount ELSE 0 - tx.amount

\* Sum of the signed amounts of the worker's transactions.
RECURSIVE SignedSum(_, _)
SignedSum(adv, w) ==
  IF adv = <<>> THEN 0
  ELSE (IF Head(adv).worker = w THEN SignedAmount(Head(adv)) ELSE 0)
       + SignedSum(Tail(adv), w)

IsPrefix(p, q) == Len(p) <= Len(q) /\ SubSeq(q, 1, Len(p)) = p

\* C1: when no request is in flight, for every worker the cached
\* advanceBalance equals the sum of the signed amounts of the worker's whole
\* ledger history.
C1_BalanceIsSignedSum ==
  Idle => \A w \in Workers : advanceBalance[w] = SignedSum(advances, w)

\* C2: every advanceBalance and every stored balanceAfter is >= 0.
C2_NeverNegative ==
  /\ \A w \in Workers : advanceBalance[w] >= 0
  /\ \A i \in 1..Len(advances) : advances[i].balanceAfter >= 0

\* C3: give, repay and deposit reject an amount <= 0 with a validation error
\* and write nothing; a rejected call served alone leaves the ledger and the
\* worker as they were.
C3_RejectsNonPositive ==
  (last.op \in LedgerOps /\ last.w \in Workers /\ last.amount <= 0) =>
    /\ last.status = 400
    /\ last.posted = <<>>
    /\ last.peers = 0 => Untouched

\* C4: a debit above the current balance is rejected and changes nothing; a
\* positive debit equal to the balance succeeds and leaves balance 0.  The
\* debits are repay, deposit and the deposit of a one-record finalize call.
DebitOverdraws(recs, bal) ==
  \E i \in 1..Len(recs) :
     /\ recs[i].workerId \in Workers
     /\ recs[i].deposit > 0
     /\ recs[i].deposit > bal[recs[i].workerId]

C4_DebitsChecked ==
  /\ (ServedAlone({"repay", "deposit"}) /\ last.w \in Workers) =>
       /\ last.amount > last.base.bal[last.w] => (last.status = 400 /\ Untouched)
       /\ (last.amount > 0 /\ last.amount = last.base.bal[last.w])
            => (last.status = 201 /\ advanceBalance[last.w] = 0)
  /\ (/\ ServedAlone(FinalizeOps)
      /\ Len(last.recs) = 1
      /\ DebitOverdraws(last.recs, last.base.bal)) => (last.status = 400 /\ Untouched)

\* The request of a response, served on its own from the database db: the
\* database it leaves and its status.
Served(resp) ==
  [op |-> resp.op, w |-> resp.w, amount |-> resp.amount, arg |-> resp.arg,
   pc |-> "read", bal |-> 0, post |-> NoPost, date |-> 0, status |-> 0, error |-> ""]
Serve(db, resp) ==
  LET s == OnWorker(Served(resp), db.bal[resp.w], clock) IN
  IF s.pc = "done" THEN [db |-> db, status |-> s.status]
  ELSE [db |-> Updated(Saved(db, s), s.post), status |-> 201]

Docs(adv) == {adv[i] : i \in 1..Len(adv)}

SameOutcome(db, first, second) ==
  LET r1 == Serve(db, first)
      r2 == Serve(r1.db, second) IN
  /\ advanceBalance' = r2.db.bal
  /\ totalAdvanceTaken' = r2.db.taken
  /\ totalAdvanceRepaid' = r2.db.repaid
  /\ Len(advances') = Len(r2.db.adv)
  /\ Docs(advances') = Docs(r2.db.adv)
  /\ first.status = r1.status
  /\ second.status = r2.status

\* C5: when two requests of give, repay or deposit on one worker were in
\* flight together and both are answered, the database and the two responses
\* are those of one of the two serial orders of the requests, started from the
\* database the first request arrived at.
C5_Serializable ==
  [][(PairAnswered(LedgerOps) /\ last.w = last'.w /\ last.w \in Workers) =>
       LET db == IF last.before = 0 THEN last.base ELSE last'.base IN
       SameOutcome(db, last, last') \/ SameOutcome(db, last', last)]_vars

\* C6: giveAdvance(w, a) with a > 0 followed at once by recordDeposit(w, a)
\* succeeds and returns the balance to its value before the giveAdvance.
C6_GiveThenDeposit ==
  (ServedAlone({"deposit"}) /\ last.prev # NoPrev /\ last.amount > 0) =>
    /\ last.status = 201
    /\ advanceBalance[last.w] = last.prev.bal

\* C7: the ledger is append-only: every step keeps every stored transaction
\* and its date, unchanged and in place.
C7_AppendOnly ==
  [][IsPrefix(advances, advances') /\ IsPrefix(advanceDates, advanceDates')]_vars

C7_Witness ==
  /\ Len(advances) >= 2
  /\ ServedAlone({"deleteHistory"}) /\ last.status = 200
  /\ \E i \in 1..Len(advances) : advances[i].notes = "deposited from bonus"
  /\ \E i \in 1..Len(advances) : advances[i].notes = ""

\* C8 as stated: only the steps of give, repay, deposit and the two finalize
\* calls write to the ledger or to a balance.
PostingOps == LedgerOps \cup FinalizeOps
LedgerWritten == advances' # advances \/ advanceBalance' # advanceBalance

C8_OnlyExplicitCalls ==
  [][LedgerWritten => \E i \in 1 .. Len(reqs) : Stepped(i) /\ reqs[i].op \in PostingOps]_vars

\* The two steps in which a salary payment writes: the repayment of
\* min(advanceDeduction, balance read), when that is positive, is appended,
\* and the balance is set to the balance read less that repayment.
SalaryPosts(r) ==
  LET d == Min(r.amount, r.bal) IN
  /\ r.op = "salary" /\ d > 0
  /\ \/ /\ r.pc = "save"
        /\ advances' = Append(advances, AdvanceDoc(r.w, "repayment", d, r.bal - d,
                                                   "Deducted from salary"))
        /\ advanceBalance' = advanceBalance
     \/ /\ r.pc = "update"
        /\ advances' = advances
        /\ advanceBalance' = [advanceBalance EXCEPT ![r.w] = r.bal - d]

\* C8 amended: the same, except that a salary payment posts one repayment of
\* min(advanceDeduction, balance) when that is positive, and nothing otherwise.
C8_OnlyExplicitCallsAndSalary ==
  [][LedgerWritten =>
       \E i \in 1 .. Len(reqs) :
          Stepped(i) /\ (reqs[i].op \in PostingOps \/ SalaryPosts(reqs[i]))]_vars

C8_Witness ==
  /\ ServedAlone({"markPaid"}) /\ last.status = 200
  /\ bonuses # {} /\ entries # {} /\ payments # <<>>
  /\ \E i \in 1..Len(advances) : advances[i].notes = "Deducted from salary"

\* C9: deleting a bonus history snapshot removes the snapshot with that id
\* and nothing else: every step of the delete leaves the ledger, the balances,
\* the totals and every other snapshot; an unknown id changes nothing.
C9_DeleteKeepsLedger ==
  [][/\ \A i \in 1 .. Len(reqs) :
          (Stepped(i) /\ reqs[i].op = "deleteHistory") =>
             /\ UNCHANGED <<ledgerVars, salaryHistory>>
             /\ bonusHistory' \in {bonusHistory, {h \in bonusHistory : h.id # reqs[i].id}}
     /\ (Answered /\ last'.op = "deleteHistory" /\ last'.peers = 0) =>
          IF \E h \in last'.base.bonusHistory : h.id = last'.id
          THEN /\ last'.status = 200
               /\ bonusHistory' = {h \in last'.base.bonusHistory : h.id # last'.id}
               /\ Cardinality(bonusHistory') = Cardinality(last'.base.bonusHistory) - 1
          ELSE /\ last'.status = 404
               /\ bonusHistory' = last'.base.bonusHistory
    ]_vars

\* The snapshot whose finalize posted a deposit is the one deleted.
C9_Witness ==
  /\ ServedAlone({"deleteHistory"}) /\ last.status = 200
  /\ nextHistoryId = 3
  /\ Cardinality(bonusHistory) = 1
  /\ \A h \in bonusHistory : h.totalDeposit = 0 /\ h.records # <<>>
  /\ \E i \in 1..Len(advances) : advances[i].notes = "deposited from bonus"

\* The first record of a draft whose deposit exceeds the balance the worker
\* had when the call arrived, or 0.
DepositFails(rec, bal) ==
  /\ rec.workerId \in Workers
  /\ rec.deposit > 0
  /\ rec.deposit > bal[rec.workerId]

FirstFailing(recs, bal) ==
  IF \E i \in 1..Len(recs) : DepositFails(recs[i], bal)
  THEN CHOOSE i \in 1..Len(recs) :
         DepositFails(recs[i], bal) /\ \A j \in 1..(i - 1) : ~DepositFails(recs[j], bal)
  ELSE 0

PostingsOf(rec) ==
  IF rec.workerId \notin Workers THEN 0
  ELSE (IF rec.deposit > 0 THEN 1 ELSE 0) + (IF rec.newAdvance > 0 THEN 1 ELSE 0)

\* C10: when record k is the first of a salary finalize call whose deposit
\* exceeds the worker's balance, the call answers 400 for that worker and
\* saves no snapshot; the postings of the records before k are appended and
\* their balances updated; nothing is posted for record k or a later one.
C10_StopsAtFirstFailure ==
  LET recs == last.recs
      k == FirstFailing(recs, last.base.bal) IN
  (ServedAlone({"salaryFinalize"}) /\ last.arg.periodOk /\ k > 0) =>
    /\ last.status = 400 /\ last.at = k /\ last.w = recs[k].workerId
    /\ salaryHistory = last.base.salaryHistory
    /\ IsPrefix(last.base.adv, advances)
    /\ Len(advances) =
         Len(last.base.adv) + SumSeq([j \in 1..(k - 1) |-> PostingsOf(recs[j])])
    /\ \A j \in 1..Len(recs) :
         LET w == recs[j].workerId IN
         w \in Workers =>
           IF j < k
           THEN advanceBalance[w] = last.base.bal[w] - recs[j].deposit + recs[j].newAdvance
           ELSE /\ advanceBalance[w] = last.base.bal[w]
                /\ \A i \in (Len(last.base.adv) + 1)..Len(advances) : advances[i].worker # w

\* A second record failed after the first record's posting was written.
C10_Witness ==
  /\ ServedAlone({"salaryFinalize"}) /\ last.status = 400 /\ last.at = 2
  /\ salaryHistory = <<>>
  /\ Len(advances) > Len(last.base.adv)
  /\ advances[Len(advances)].worker = last.recs[1].workerId
  /\ advances[Len(advances)].notes \in {"deposited from salary", "taken advance with salary"}

\* ------------------------------------------------------ settlement history
\* The records of a draft whose worker exists, in the order of the draft.
KnownRecs(recs) == SelectSeq(recs, LAMBDA r : r.workerId \in Workers)
SumField(q, f) == SumSeq([i \in 1..Len(q) |-> q[i][f]])

\* The snapshots of a salary history document against the records they were
\* taken from: one for each, with the record's amounts and the balance the
\* worker had when the call began.
SalarySnapshotsOf(h, recs, bal) ==
  /\ Len(h.records) = Len(recs)
  /\ \A i \in 1..Len(recs) : i \in DOMAIN h.records =>
       /\ h.records[i].worker = recs[i].workerId
       /\ h.records[i].totalPay = recs[i].totalPay
       /\ h.records[i].deposit = recs[i].deposit
       /\ h.records[i].finalAmount = recs[i].finalAmount
       /\ recs[i].workerId \in Workers =>
            h.records[i].advanceBalanceAtSave = bal[recs[i].workerId]
SalaryTotalsOf(h) ==
  /\ h.totalHours = SumField(h.records, "totalHoursWorked")
  /\ h.totalAmount = SumField(h.records, "totalPay")
  /\ h.totalDeposit = SumField(h.records, "deposit")
  /\ h.totalFinal = SumField(h.records, "finalAmount")

BonusSnapshotsOf(h, recs, bal) ==
  /\ Len(h.records) = Len(recs)
  /\ \A i \in 1..Len(recs) : i \in DOMAIN h.records =>
       /\ h.records[i].worker = recs[i].workerId
       /\ h.records[i].baseBonusAmount = recs[i].baseBonusAmount
       /\ h.records[i].totalPenalty = recs[i].totalPenalty
       /\ h.records[i].extraBonus = recs[i].extraBonus
       /\ h.records[i].deposit = recs[i].deposit
       /\ recs[i].workerId \in Workers =>
            h.records[i].advanceBalanceAtSave = bal[recs[i].workerId]
BonusTotalsOf(h) ==
  /\ h.totalBaseBonusAmount = SumField(h.records, "baseBonusAmount")
  /\ h.totalPenalty = SumField(h.records, "totalPenalty")
  /\ h.totalExtraBonus = SumField(h.records, "extraBonus")
  /\ h.totalDeposit = SumField(h.records, "deposit")
  /\ h.totalFinalAmount = SumField(h.records, "amountToGiveEmployee")
  /\ h.totalAdvanceDue = SumField(h.records, "advanceBalanceAtSave")

\* C11: each finalize call that completes persists exactly one history
\* record, with one snapshot for every record of the submitted draft and with
\* aggregate sums equal to the sums of the snapshot fields.
C11_SnapshotOfEveryRecord ==
  /\ (ServedAlone({"salaryFinalize"}) /\ last.status = 201) =>
       /\ Len(salaryHistory) = Len(last.base.salaryHistory) + 1
       /\ IsPrefix(last.base.salaryHistory, salaryHistory)
       /\ bonusHistory = last.base.bonusHistory
       /\ SalarySnapshotsOf(salaryHistory[Len(salaryHistory)], last.recs, last.base.bal)
       /\ SalaryTotalsOf(salaryHistory[Len(salaryHistory)])
  /\ (ServedAlone({"bonusFinalize"}) /\ last.status = 201) =>
       /\ salaryHistory = last.base.salaryHistory
       /\ last.base.bonusHistory \subseteq bonusHistory
       /\ Cardinality(bonusHistory \ last.base.bonusHistory) = 1
       /\ \A h \in bonusHistory \ last.base.bonusHistory :
            BonusSnapshotsOf(h, last.recs, last.base.bal) /\ BonusTotalsOf(h)

\* C18: for every worker record of a salary settlement the stored finalAmount
\* equals max(0, totalPay - deposit), and a newAdvance of the record is posted
\* to the ledger by the finalize.
C18_FinalAmountIsPayLessDeposit ==
  (ServedAlone({"salaryFinalize"}) /\ last.status = 201) =>
    LET h == salaryHistory[Len(salaryHistory)]
        recs == KnownRecs(last.recs) IN
    \A i \in 1..Len(h.records) :
      /\ h.records[i].finalAmount = Max(0, h.records[i].totalPay - h.records[i].deposit)
      /\ (i <= Len(recs) /\ recs[i].newAdvance > 0) =>
           \E k \in (Len(last.base.adv) + 1) .. Len(advances) :
             /\ advances[k].worker = recs[i].workerId
             /\ advances[k].type = "advance"
             /\ advances[k].amount = recs[i].newAdvance

\* ------------------------------------------------------- bonus computation
CalcOps == {"calculate", "calculateDateRange"}

\* A stored record without periodStart and periodEnd was created by
\* POST /bonus/calculate, for the whole year.
RecordPeriod(b) == IF b.period = NoPeriod THEN YearPeriod ELSE b.period

\* C12: a recompute for the period of a persisted record, by either route,
\* persisting or not, reports for the worker at least the extraBonus and the
\* employeeDeposit the record held (and stores at least them, when it
\* persists).
C12_RecomputeKeepsAdjustments ==
  (ServedAlone(CalcOps) /\ last.status = 200) =>
    \A b \in last.base.bonuses : RecordPeriod(b) = last.arg.period =>
      /\ \A d \in last.out : d.worker = b.worker =>
           d.extraBonus >= b.extraBonus /\ d.employeeDeposit >= b.employeeDeposit
      /\ last.arg.persist =>
           \A c \in bonuses : c.worker = b.worker =>
             c.extraBonus >= b.extraBonus /\ c.employeeDeposit >= b.employeeDeposit

\* C13: a compute call that repeats the call served just before it (same
\* route, period, deduction and persist flag, nothing written in between)
\* returns the same per-worker drafts, persisting or not.
C13_RecomputeIdempotent ==
  (ServedAlone(CalcOps) /\ last.status = 200 /\ last.prev # NoPrev) =>
    last.out = last.prev.out

\* A persisting call was repeated and its drafts carry an extra bonus and a
\* penalty.
C13_Witness ==
  /\ ServedAlone(CalcOps) /\ last.status = 200 /\ last.prev # NoPrev
  /\ last.arg.persist
  /\ \E d \in last.out : d.extraBonus > 0 /\ d.totalPenalty > 0

\* The workers that were active when the call answered last arrived.
Cohort == {w \in Workers : last.base.active[w]}

\* The absent days of a worker in the months of a period, counted from the
\* entries, and the least of them among the workers of a cohort.
AbsentIn(w, p) ==
  Cardinality({e \in entries : /\ e.worker = w /\ e.status = "absent"
                                 /\ p[1] <= e.date /\ e.date <= p[2]})
LeastAbsent(W, p) ==
  IF W = {} THEN 0
  ELSE CHOOSE m \in 0 .. MaxDay : /\ \E w \in W : AbsentIn(w, p) = m
                                  /\ \A w \in W : m <= AbsentIn(w, p)

\* The draft of a worker in a response: the worker's record, and the one
\* stored first when the year holds several records of the worker.
DraftsOf(out, w) ==
  {d \in out : d.worker = w /\ \A e \in out : e.worker = w => d.id <= e.id}

\* C14: a compute call drafts every active worker.  The year route charges
\* every absent day of the worker; the date-range route charges the absent
\* days above the least number of absent days among the active workers.  With
\* no active worker there is no draft: a non-persisting call returns nothing
\* and a persisting call returns the stored records as they were.  The least
\* of no workers is 0, and 2 absences at 50 with a minimum of 0 cost 100.
C14_PenaltyByMode ==
  /\ (ServedAlone(CalcOps) /\ last.status = 200) =>
       /\ \A w \in Cohort : DraftsOf(last.out, w) # {}
       /\ \A w \in Cohort : \A d \in DraftsOf(last.out, w) :
            d.totalPenalty =
              IF last.op = "calculate"
              THEN AbsentIn(w, YearPeriod) * last.amount
              ELSE (IF AbsentIn(w, last.arg.period) > LeastAbsent(Cohort, last.arg.period)
                    THEN AbsentIn(w, last.arg.period) - LeastAbsent(Cohort, last.arg.period)
                    ELSE 0) * last.amount
       /\ ~last.arg.persist => \A d \in last.out : d.worker \in Cohort
       /\ Cohort = {} =>
            /\ bonuses = last.base.bonuses
            /\ last.out = IF last.arg.persist THEN last.base.bonuses ELSE {}
  /\ MinAbsent(<<>>) = 0
  /\ ThresholdPenalty(2, 0, 50) = 100
  /\ AbsolutePenalty(2, 50) = 100

\* A date-range call while a worker that was never absent is inactive: the
\* least among the active workers is above the least among all workers, and
\* the active worker with the least absences is charged nothing.
C14_Witness ==
  /\ ServedAlone({"calculateDateRange"}) /\ last.status = 200
  /\ \E v \in Workers \ Cohort :
       AbsentIn(v, last.arg.period) < LeastAbsent(Cohort, last.arg.period)
  /\ \E w \in Cohort : \E d \in DraftsOf(last.out, w) :
       AbsentIn(w, last.arg.period) > 0 /\ d.totalPenalty = 0

\* C15: every draft returned by a compute call has base = 30 x 8 x hourlyRate,
\* gross = max(0, base - penalty + extra) and net = max(0, gross - deposit);
\* hourlyRate 100 with penalty 100 and no adjustments nets 23900.
C15_DraftArithmetic ==
  /\ (ServedAlone(CalcOps) /\ last.status = 200) =>
       \A d \in last.out :
         /\ d.baseBonusAmount = 30 * 8 * hourlyRate[d.worker]
         /\ d.finalBonusAmount =
              (IF d.baseBonusAmount - d.totalPenalty + d.extraBonus > 0
               THEN d.baseBonusAmount - d.totalPenalty + d.extraBonus ELSE 0)
         /\ d.amountToGiveEmployee =
              (IF d.finalBonusAmount - d.employeeDeposit > 0
               THEN d.finalBonusAmount - d.employeeDeposit ELSE 0)
  /\ AmountToGive(FinalBonus(BaseBonus(100), 100, 0), 0) = 23900

\* The record a deposit names: the record of the id, or with the id
\* 'undefined' the record of the worker that was stored first.
DepositRecord(bs, id, w) ==
  IF id = Undefined
  THEN {b \in bs : b.worker = w /\ \A c \in bs : c.worker = w => b.id <= c.id}
  ELSE {b \in bs : b.id = id}

\* C16: a deposit of a positive amount on an existing record is rejected when
\* the amount exceeds the record's gross bonus, and then nothing stored changes
\* (the record keeps its deposit, its net and its notes); otherwise the
\* record's deposit grows by exactly the amount, its net becomes
\* max(0, gross - deposit) and a note of the deposit is appended, nothing else
\* changing.
C16_DepositWithinGross ==
  (ServedAlone({"addEmployeeDeposit"}) /\ last.amount > 0) =>
    \A b \in DepositRecord(last.base.bonuses, last.arg.bonusId, last.w) :
      IF last.amount > b.finalBonusAmount
      THEN /\ last.status = 400
           /\ last.error = "Deposit amount cannot exceed final bonus"
           /\ bonuses = last.base.bonuses
      ELSE /\ last.status = 200
           /\ bonuses = (last.base.bonuses \ {b}) \cup
                {[b EXCEPT !.employeeDeposit = b.employeeDeposit + last.amount,
                           !.amountToGiveEmployee =
                              IF b.finalBonusAmount - (b.employeeDeposit + last.amount) > 0
                              THEN b.finalBonusAmount - (b.employeeDeposit + last.amount)
                              ELSE 0,
                           !.notes = Append(b.notes, <<"Employee deposited", last.amount>>)]}

\* A deposit was accepted on a record that held an earlier deposit and a note
\* of it, the first of two records of the worker; the record now holds both
\* deposits and both notes.
C16_Witness ==
  /\ ServedAlone({"addEmployeeDeposit"}) /\ last.status = 200 /\ last.amount > 0
  /\ \E b \in DepositRecord(last.base.bonuses, last.arg.bonusId, last.w) :
       /\ b.employeeDeposit > 0 /\ b.notes # <<>>
       /\ \E c \in last.base.bonuses : c.worker = b.worker /\ c.id # b.id
       /\ \E c \in bonuses :
            /\ c.id = b.id /\ c.employeeDeposit = b.employeeDeposit + last.amount
            /\ Len(c.notes) = Len(b.notes) + 1

\* C17: marking a record paid sets isPaid, stores the supplied amountPaid (0
\* included) or the net bonus when none is supplied, and leaves the ledger.
C17_MarkPaidStoresSuppliedAmount ==
  (ServedAlone({"markPaid"}) /\ last.status = 200) =>
    /\ Untouched
    /\ \A b \in last.base.bonuses : b.id = last.arg.bonusId =>
         \E c \in bonuses :
           /\ c.id = b.id
           /\ c.isPaid
           /\ c.amountPaid = IF last.arg.supplied THEN last.amount
                             ELSE b.amountToGiveEmployee

\* ---------------------------------------------------------------- attendance
\* C19: saving the attendance of a worker for a day that already has an entry
\* overwrites that entry: there is never more than one entry for a worker and
\* a day, and after a save the entry carries the status, the hours and the pay
\* of that save.
C19_OneEntryPerWorkerAndDay ==
  /\ \A e1, e2 \in entries :
       (e1.worker = e2.worker /\ e1.date = e2.date) => e1 = e2
  /\ (ServedAlone({"upsertEntry"}) /\ last.status = 201) =>
       /\ Cardinality(EntriesOn(entries, last.w, last.arg.date)) = 1
       /\ \A e \in EntriesOn(entries, last.w, last.arg.date) :
            /\ e.status = last.arg.status
            /\ e.hoursWorked = last.amount
            /\ e.totalPay = IF last.arg.status = "absent" THEN 0
                            ELSE last.amount * hourlyRate[last.w]

\* A save found an entry with other hours and another status, and the day has
\* the one entry of the save.
C19_Witness ==
  /\ ServedAlone({"upsertEntry"}) /\ last.status = 201
  /\ \E e \in last.found : e.hoursWorked # last.amount /\ e.status # last.arg.status
  /\ Cardinality(EntriesOn(entries, last.w, last.arg.date)) = 1
  /\ \A e \in EntriesOn(entries, last.w, last.arg.date) : e.hoursWorked = last.amount

\* C20: an entry saved as a half day is paid half of the worker's daily working
\* hours at the hourly rate.
C20_HalfDayPaysHalfTheDay ==
  (ServedAlone({"upsertEntry"}) /\ last.status = 201 /\ last.arg.status = "half-day") =>
    \A e \in EntriesOn(entries, last.w, last.arg.date) :
      2 * e.totalPay = dailyWorkingHours[last.w] * hourlyRate[last.w]

\* The stored entries of a worker dated inside a range, and the sum of a
\* number given for each of them.
StoredIn(w, sd, ed) == {e \in entries : e.worker = w /\ sd <= e.date /\ e.date <= ed}
RECURSIVE SumFn(_, _)
SumFn(f, D) ==
  IF D = {} THEN 0 ELSE LET x == CHOOSE y \in D : TRUE IN f[x] + SumFn(f, D \ {x})
ReadOps == {"calculateWorker", "allWorkersSummary"}
RowHours(r) == IF last.op = "calculateWorker" THEN r.totalHours ELSE r.totalHoursWorked

\* C21: each row of an aggregate read carries the sums of the stored
\* hoursWorked and totalPay of the worker's entries dated inside the range, the
\* number of present or holiday entries and the number of absent entries.
C21_AggregateIsStoredSum ==
  (ServedAlone(ReadOps) /\ last.status = 200) =>
    \A r \in last.out :
      LET S == StoredIn(r.worker, last.arg.startDate, last.arg.endDate) IN
      /\ RowHours(r) = SumFn([e \in S |-> e.hoursWorked], S)
      /\ r.totalPay = SumFn([e \in S |-> e.totalPay], S)
      /\ r.daysPresent = Cardinality({e \in S : e.status \in {"present", "holiday"}})
      /\ r.daysAbsent = Cardinality({e \in S : e.status = "absent"})

\* C26: the summary counts a holiday entry as a full day only when its stored
\* hoursWorked is 0 and every other entry as stored, and it writes no entry.
C26_HolidayFullOnlyWhenZeroHours ==
  (ServedAlone({"allWorkersSummary"}) /\ last.status = 200) =>
    /\ entries = last.base.entries
    /\ \A r \in last.out :
         LET S == StoredIn(r.worker, last.arg.startDate, last.arg.endDate) IN
         /\ r.totalHoursWorked =
              SumFn([e \in S |-> IF e.status = "holiday" /\ e.hoursWorked = 0
                                 THEN DailyWorkingHours ELSE e.hoursWorked], S)
         /\ r.totalPay =
              SumFn([e \in S |-> IF e.status = "holiday" /\ e.hoursWorked = 0
                                 THEN DailyWorkingHours * hourlyRate[e.worker]
                                 ELSE e.totalPay], S)

\* C30: when no request is in flight, every worker's cached totalDaysWorked is
\* the number of his stored entries with status present or holiday, and his
\* totalDaysAbsent the number with status absent.
C30_StatsMatchEntries ==
  Idle =>
    \A w \in Workers :
      /\ totalDaysWorked[w] =
           Cardinality({e \in entries : e.worker = w /\ e.status \in {"present", "holiday"}})
      /\ totalDaysAbsent[w] =
           Cardinality({e \in entries : e.worker = w /\ e.status = "absent"})

\* The balance a transaction found: the balanceAfter of the worker's
\* transaction written before it, or 0 for the worker's first.
PriorBalance(i) ==
  LET before == {j \in 1 .. (i - 1) : advances[j].worker = advances[i].worker} IN
  IF before = {} THEN 0
  ELSE advances[CHOOSE j \in before : \A k \in before : k <= j].balanceAfter

\* C22: the balanceAfter of every stored transaction is the worker's balance
\* before it plus its signed amount.
C22_BalanceAfterIsPriorPlusSigned ==
  \A i \in 1 .. Len(advances) :
    advances[i].balanceAfter = PriorBalance(i) + SignedAmount(advances[i])

\* C28: when no request is in flight, for every worker
\* totalAdvanceTaken - totalAdvanceRepaid = advanceBalance.
C28_TakenLessRepaidIsBalance ==
  Idle => \A w \in Workers :
            totalAdvanceTaken[w] - totalAdvanceRepaid[w] = advanceBalance[w]

\* C29: when no request is in flight, the employeeDeposit of a bonus record
\* does not exceed its finalBonusAmount, and its amountToGiveEmployee is
\* max(0, finalBonusAmount - employeeDeposit).
C29_DepositWithinGrossAlways ==
  Idle => \A b \in bonuses :
            /\ b.employeeDeposit <= b.finalBonusAmount
            /\ b.amountToGiveEmployee =
                 (IF b.finalBonusAmount - b.employeeDeposit > 0
                  THEN b.finalBonusAmount - b.employeeDeposit ELSE 0)

\* The transactions a salary finalize is to post for the records i .. k - 1
\* of a draft that names each worker once: per record the deposit, leaving
\* balance - deposit, then the new advance on top of what the deposit left.
Posting(w, type, amount, balanceAfter) ==
  [worker |-> w, type |-> type, amount |-> amount, balanceAfter |-> balanceAfter]
RECURSIVE ExpectedPostings(_, _, _, _)
ExpectedPostings(recs, i, k, bal) ==
  IF i >= k THEN <<>>
  ELSE LET r == recs[i]
           b == bal[r.workerId] IN
       (IF r.deposit > 0
        THEN <<Posting(r.workerId, "deposit", r.deposit, b - r.deposit)>> ELSE <<>>)
       \o (IF r.newAdvance > 0
           THEN <<Posting(r.workerId, "advance", r.newAdvance,
                          b - r.deposit + r.newAdvance)>>
           ELSE <<>>)
       \o ExpectedPostings(recs, i + 1, k, bal)
Postings(adv, from) ==
  [i \in 1 .. (Len(adv) - from) |->
     Posting(adv[from + i].worker, adv[from + i].type, adv[from + i].amount,
             adv[from + i].balanceAfter)]

\* C24: a salary finalize appends, record by record in the order of the draft,
\* the deposit and then the new advance of the record, the advance's
\* balanceAfter counting from the balance the deposit left.
C24_DepositBeforeAdvancePerWorker ==
  ServedAlone({"salaryFinalize"}) =>
    /\ IsPrefix(last.base.adv, advances)
    /\ Postings(advances, Len(last.base.adv)) =
         ExpectedPostings(last.recs, 1,
                          IF FirstFailing(last.recs, last.base.bal) > 0
                          THEN FirstFailing(last.recs, last.base.bal)
                          ELSE Len(last.recs) + 1,
                          last.base.bal)

\* A finalize of two workers posted deposit and advance for each, in order.
C24_Witness ==
  /\ ServedAlone({"salaryFinalize"}) /\ last.status = 201 /\ Len(last.recs) = 2
  /\ \A i \in 1 .. 2 : last.recs[i].deposit > 0 /\ last.recs[i].newAdvance > 0
  /\ Len(advances) >= 4
  /\ LET n == Len(advances) IN
     /\ advances[n - 3].worker = last.recs[1].workerId /\ advances[n - 3].type = "deposit"
     /\ advances[n - 2].worker = last.recs[1].workerId /\ advances[n - 2].type = "advance"
     /\ advances[n - 1].worker = last.recs[2].workerId /\ advances[n - 1].type = "deposit"
     /\ advances[n].worker = last.recs[2].workerId /\ advances[n].type = "advance"
     /\ advances[n].balanceAfter = advanceBalance[last.recs[2].workerId]

\* C25: in the history record a finalize persists, the advanceBalanceAtSave of
\* every snapshot is the worker's balance after the postings of that call.
C25_BalanceAtSaveIsBalanceAfterPostings ==
  /\ (ServedAlone({"salaryFinalize"}) /\ last.status = 201) =>
       \A i \in 1 .. Len(salaryHistory[Len(salaryHistory)].records) :
         LET r == salaryHistory[Len(salaryHistory)].records[i] IN
         r.advanceBalanceAtSave = advanceBalance[r.worker]
  /\ (ServedAlone({"bonusFinalize"}) /\ last.status = 201) =>
       \A h \in bonusHistory : h.id = last.id =>
         \A i \in 1 .. Len(h.records) :
           h.records[i].advanceBalanceAtSave = advanceBalance[h.records[i].worker]

\* C23: whenever no request is in flight, every worker's cached balance is
\* the balanceAfter of the worker's transaction with the greatest date, or 0
\* when the worker has none.
C23_BalanceIsLatestBalanceAfter ==
  Idle =>
    \A w \in Workers :
      LET mine == {i \in 1 .. Len(advances) : advances[i].worker = w} IN
      IF mine = {} THEN advanceBalance[w] = 0
      ELSE \E i \in mine :
             /\ \A j \in mine : advanceDates[j] <= advanceDates[i]
             /\ advances[i].balanceAfter = advanceBalance[w]

\* C27: requests that save the attendance of the same worker and day, in every
\* interleaving of their steps, never leave two entries for that worker and
\* day; when two that were in flight together are answered, each was answered
\* 201 or failed on the insert of an entry the other had inserted meanwhile,
\* and at least one was answered 201.
SavedOrRefused(resp) == resp.status = 201 \/ (resp.status = 400 /\ resp.found = {})

C27_ConcurrentSavesKeepOneEntry ==
  [][/\ \A e1, e2 \in entries' : (e1.worker = e2.worker /\ e1.date = e2.date) => e1 = e2
     /\ (PairAnswered({"upsertEntry"}) /\ last.w = last'.w /\ last.w \in Workers
         /\ last.arg.date = last'.arg.date) =>
          /\ SavedOrRefused(last) /\ SavedOrRefused(last')
          /\ last.status = 201 \/ last'.status = 201
          /\ Cardinality(EntriesOn(entries', last.w, last.arg.date)) = 1]_vars

\* Two requests both found no entry; one inserted and was answered 201, the
\* other failed on its insert.
C27_Witness ==
  /\ Idle /\ last.op = "upsertEntry" /\ last.peers = 1
  /\ last.status = 400 /\ last.found = {}
  /\ Cardinality(EntriesOn(entries, "w1", 1)) = 1

====
